---- MODULE Spec2Model ----
(***************************************************************************)
(* GDIVIR: cross-temporal matching of administrative regions.              *)
(*                                                                         *)
(* The cleaned stores (geographical_divisions.parquet and                  *)
(* census_results.parquet) are the state the matchmaker reads; one call of *)
(* create_many_to_one_mapping(year, region_type) walks through the tables  *)
(* it builds on its way: the city and the village transformation table,    *)
(* the population transformation table, the documentation view and the     *)
(* mapping.                                                                *)
(*                                                                         *)
(* Codes are tuples of digits (<<0,3,1,2>> is the string "0312"): string   *)
(* concatenation is \o and the string order is the lexicographic order.    *)
(* The null value (None / NaN / NA) is the empty tuple; a non-null number  *)
(* n is <<n>>.  A Population_Share is the exact rational <<num, den>> of   *)
(* the float the code computes, or None where the float is NaN.            *)
(***************************************************************************)
EXTENDS Integers, Sequences, FiniteSets, TLC

VARIABLES
    geographical_divisions, \* cleaned geographical divisions store: year -> rows
    census_results,         \* cleaned census store: rows of the census year
    region_type,            \* argument of the call
    pc,                     \* position of the call
    city_tt,                \* _create_city_transformation_table(year, region_type)
    village_tt,             \* _create_village_transformation_table(year, region_type)
    population_table,       \* create_population_transformation_table(year, region_type)
    documentation,          \* create_many_to_one_mapping_documentation(year, region_type)
    mapping,                \* create_many_to_one_mapping(year, region_type)
    raw_files,              \* Dataset.raw_files: the years it has files for, in file order
    call,                   \* the last call made: its method and arguments
    outcome,                \* what that call returned or raised
    provinces_csv,          \* internal_data/datasets/hbsir/provinces.csv: year -> listed IDs
    counties_csv,           \* internal_data/datasets/hbsir/counties.csv: year -> listed IDs
    non_standard_codes,     \* metadata.external_datasets[...]["counties"]["non_standard_codes"]
    provincial_standards,   \* province.find_geodiv_standard(external_dataset)
    transformations,        \* _get_extra_provincial_transformations(provincial_standards)
    ept_mappings,           \* build_annual_ept_mappings(provincial_standards)
    internal_results        \* directories.internal_results: file name -> version table

\* the state of one call of create_many_to_one_mapping
matchmaker_vars == <<census_results, region_type,
                     city_tt, village_tt, population_table, documentation, mapping>>

\* the state of the calls of the temporal index
index_vars == <<raw_files>>

\* the state of the reconciliation of an external dataset's codes
reconciliation_vars == <<provinces_csv, counties_csv, non_standard_codes,
                         provincial_standards, transformations, ept_mappings>>

\* the state of the version tracker
version_vars == <<internal_results>>

vars == <<geographical_divisions, pc, call, outcome,
          matchmaker_vars, index_vars, reconciliation_vars, version_vars>>

----------------------------------------------------------------------------
(* Bounds and the universe the inputs are drawn from *)

\* populations of a census row range over 0..MaxPop (and null)
MaxPop == 1

None == <<>>

Some(n) == <<n>>

\* the years of the geographical divisions dataset and of the census dataset
GeoYears == <<1394, 1395>>

CensusYears == <<1390, 1395>>

\* the year the mapping is asked for
TargetYear == GeoYears[Len(GeoYears)]

\* ancestor chains (Province_ID, County_ID, District_ID) a unit may lie in
Places ==
    { [Province_ID |-> <<0, 3>>, County_ID |-> <<1, 2>>, District_ID |-> <<0, 1>>],
      [Province_ID |-> <<0, 3>>, County_ID |-> <<1, 3>>, District_ID |-> <<0, 1>>] }

\* stable keys: Village_ID of the villages, Rural_District_or_City_ID of the cities
Villages == { <<0, 0, 1>>, <<0, 0, 2>> }

Cities == { <<1, 0, 0, 1>> }

Units == Villages \cup Cities

\* the rural district every village of the model lies in
RuralDistrict == <<0, 0, 0, 1>>

RegionTypes == { "Province", "County" }

----------------------------------------------------------------------------
(* Strings and sequences *)

RECURSIVE LexLess(_, _)
\* a < b on Python strings
LexLess(a, b) ==
    IF b = <<>> THEN FALSE
    ELSE IF a = <<>> THEN TRUE
    ELSE IF Head(a) # Head(b) THEN Head(a) < Head(b)
    ELSE LexLess(Tail(a), Tail(b))

RECURSIVE SumSeq(_)
SumSeq(s) == IF s = <<>> THEN 0 ELSE Head(s) + SumSeq(Tail(s))

RECURSIVE SeqOfSet(_)
\* the rows of a set, in the order of their ID
SeqOfSet(S) ==
    IF S = {} THEN <<>>
    ELSE LET first == CHOOSE r \in S : \A q \in S : q = r \/ ~ LexLess(q.ID, r.ID)
         IN  <<first>> \o SeqOfSet(S \ {first})

Range(s) == { s[i] : i \in 1..Len(s) }

----------------------------------------------------------------------------
(* The cleaned stores *)

\* a unit that a year's snapshot does not hold
NoPlace == [Province_ID |-> None, County_ID |-> None, District_ID |-> None]

VillageType(v) == IF v = <<0, 0, 1>> THEN "Regular_Village" ELSE "Block_Village"

\* ID is the concatenation of the ancestor chain
VillageRow(year, place, v) ==
    [ Year |-> year,
      ID |-> place.Province_ID \o place.County_ID \o place.District_ID
             \o RuralDistrict \o v,
      Province_ID |-> place.Province_ID,
      County_ID |-> place.County_ID,
      District_ID |-> place.District_ID,
      Rural_District_or_City_ID |-> RuralDistrict,
      Village_ID |-> v,
      Region_Type |-> VillageType(v) ]

CityRow(year, place, c) ==
    [ Year |-> year,
      ID |-> place.Province_ID \o place.County_ID \o place.District_ID \o c,
      Province_ID |-> place.Province_ID,
      County_ID |-> place.County_ID,
      District_ID |-> place.District_ID,
      Rural_District_or_City_ID |-> c,
      Village_ID |-> None,
      Region_Type |-> "City" ]

ProvinceRow(year, p) ==
    [ Year |-> year, ID |-> p, Province_ID |-> p, County_ID |-> None,
      District_ID |-> None, Rural_District_or_City_ID |-> None,
      Village_ID |-> None, Region_Type |-> "Province" ]

\* one year's cleaned snapshot, sorted by ID: the units where `placed` puts them,
\* and the rows of their provinces
Snapshot(year, placed) ==
    SeqOfSet(
        { VillageRow(year, placed[v], v) : v \in { u \in Villages : placed[u] # NoPlace } }
        \cup { CityRow(year, placed[c], c) : c \in { u \in Cities : placed[u] # NoPlace } }
        \cup { ProvinceRow(year, placed[u].Province_ID) :
                 u \in { w \in Units : placed[w] # NoPlace } })

\* what the census row of a unit holds in Household_Count and in Population:
\* null, or a number
CensusChoices == { None } \cup { Some(n) : n \in 0..MaxPop }

CensusRow(year, u, counted) ==
    [ Year |-> year,
      ID |-> u,
      Rural_District_or_City_ID |-> IF u \in Cities THEN u ELSE RuralDistrict,
      Village_ID |-> IF u \in Villages THEN u ELSE None,
      Region_Type |-> IF u \in Cities THEN "City" ELSE VillageType(u),
      Household_Count |-> counted,
      Population |-> counted ]

\* the census of a year, sorted by ID
Census(year, held) == SeqOfSet({ CensusRow(year, u, held[u]) : u \in Units })

----------------------------------------------------------------------------
(* utils.metadata_reader: the temporal index *)

\* dict(zip(keys, values)): zip stops at the shorter list, a later pair replaces
\* an earlier one with the same key
DictZip(keys, values) ==
    LET n == IF Len(keys) < Len(values) THEN Len(keys) ELSE Len(values)
        last(k) == CHOOSE i \in 1..n : keys[i] = k /\ \A j \in 1..n : keys[j] = k => j <= i
    IN  [ k \in { keys[i] : i \in 1..n } |-> values[last(k)] ]

\* years[:-1]
AllButLast(years) == SubSeq(years, 1, Len(years) - 1)

\* years[1:]
AllButFirst(years) == SubSeq(years, 2, Len(years))

\* next_year_dict with the last year wrapping around to the first
NextYearDictWrapping(years) == DictZip(years, AllButFirst(years) \o years)

\* next_year_dict of get_next_year: dict(zip(self.years[:-1], self.years[1:]))
NextYearDict(years) == DictZip(AllButLast(years), AllButFirst(years))

\* next_year_dict of get_previous_year: dict(zip(self.years[1:], self.years[:-1]))
PreviousYearDict(years) == DictZip(AllButFirst(years), AllButLast(years))

\* Dataset.get_next_year where it returns
get_next_year(years, year) == NextYearDict(years)[year]

\* Dataset.get_previous_year where it returns
get_previous_year(years, year) == PreviousYearDict(years)[year]

Abs(x) == IF x < 0 THEN -x ELSE x

\* min and max of a non-empty list of integers
Min(S) == CHOOSE x \in S : \A y \in S : x <= y

Max(S) == CHOOSE x \in S : \A y \in S : y <= x

\* get_nearest_year that takes the later year whatever prefer_later says
get_nearest_year_later(years, year, prefer_later) ==
    LET distances == [ i \in 1..Len(years) |-> Abs(years[i] - year) ]
        min_distance == Min(Range(distances))
    IN  Max({ years[i] : i \in { j \in 1..Len(years) : distances[j] = min_distance } })

\* Dataset.get_nearest_year of a dataset that has years
get_nearest_year(years, year, prefer_later) ==
    LET distances == [ i \in 1..Len(years) |-> Abs(years[i] - year) ]
        min_distance == Min(Range(distances))
        indices == { i \in 1..Len(years) : distances[i] = min_distance }
        near_years == { years[i] : i \in indices }
    IN  IF prefer_later THEN Max(near_years) ELSE Min(near_years)

----------------------------------------------------------------------------
(* matchmaker.common: village and city unit tables *)

_filter_villages(r) == r.Region_Type \in { "Regular_Village", "Block_Village" }

_filter_cities(r) == r.Region_Type \in { "City" }

\* a nullable number with null read as 0: fillna(0)
Fill0(x) == IF x = None THEN 0 ELSE x[1]

\* .fillna(0).sum(axis="columns").replace(0, None)
_calculate_total(city_value, village_value) ==
    LET total == Fill0(city_value) + Fill0(village_value)
    IN  IF total = 0 THEN None ELSE Some(total)

\* the column `column` of the census row a left join on the key finds, null
\* where it finds none (validate="1:1": at most one row has the key)
JoinedValue(rows, key, column) ==
    LET hits == { i \in 1..Len(rows) : rows[i][key[1]] = key[2] }
    IN  IF hits = {} THEN None ELSE rows[CHOOSE i \in hits : TRUE][column]

\* the census rows read with filters=[("Year", "=", census_year)]
ReadCensus(census_year) == SelectSeq(census_results, LAMBDA r : r.Year = census_year)

\* the unit table's rows with Household_Count and Population of the census year
add_population(geo_data, census_year) ==
    LET cnesus_data == ReadCensus(census_year)
        city_rows == SelectSeq(cnesus_data, _filter_cities)
        \* .dropna() drops a village row with a null count
        rural_rows == SelectSeq(cnesus_data,
                          LAMBDA r : /\ _filter_villages(r)
                                     /\ r.Household_Count # None
                                     /\ r.Population # None)
        City(r, column) ==
            IF _filter_cities(r)
            THEN JoinedValue(city_rows,
                     <<"Rural_District_or_City_ID", r.Rural_District_or_City_ID>>, column)
            ELSE None
        Village(r, column) ==
            IF _filter_villages(r)
            THEN JoinedValue(rural_rows, <<"Village_ID", r.Village_ID>>, column)
            ELSE None
    IN  [ i \in 1..Len(geo_data) |->
            [ Household_Count |->
                  _calculate_total(City(geo_data[i], "Household_Count"),
                                   Village(geo_data[i], "Household_Count")),
              Population |->
                  _calculate_total(City(geo_data[i], "Population"),
                                   Village(geo_data[i], "Population")) ]
            @@ geo_data[i] ]

\* PrefixCounty with the province prefix forgotten
PrefixCountyUnprefixed(table) == table

\* County_ID = Province_ID + County_ID
PrefixCounty(table) ==
    [ i \in 1..Len(table) |->
        [ table[i] EXCEPT !.County_ID = table[i].Province_ID \o table[i].County_ID ] ]

RECURSIVE DropDuplicates(_, _, _)
\* drop_duplicates(column): the first row of every value, `seen` the values so far
DropDuplicates(table, column, seen) ==
    IF table = <<>> THEN <<>>
    ELSE IF Head(table)[column] \in seen
         THEN DropDuplicates(Tail(table), column, seen)
         ELSE <<Head(table)>>
              \o DropDuplicates(Tail(table), column, seen \cup { Head(table)[column] })

create_village_table(year) ==
    add_population(
        DropDuplicates(
            PrefixCounty(SelectSeq(geographical_divisions[year], _filter_villages)),
            "Village_ID", {}),
        get_nearest_year(CensusYears, year, TRUE))

\* City_ID = Rural_District_or_City_ID
AssignCityID(table) ==
    [ i \in 1..Len(table) |->
        [ City_ID |-> table[i].Rural_District_or_City_ID ] @@ table[i] ]

create_city_table(year) ==
    add_population(
        PrefixCounty(AssignCityID(SelectSeq(geographical_divisions[year], _filter_cities))),
        get_nearest_year(CensusYears, year, TRUE))

----------------------------------------------------------------------------
(* matchmaker.common: transformation tables *)

RECURSIVE SortCodes(_)
\* the codes of a set in string order
SortCodes(S) ==
    IF S = {} THEN <<>>
    ELSE LET first == CHOOSE c \in S : \A d \in S : d = c \/ LexLess(c, d)
         IN  <<first>> \o SortCodes(S \ {first})

\* the columns of one side of a merged row, null where the side has no row
SideColumns(table, column, key) ==
    LET hits == { i \in 1..Len(table) : table[i][column] = key }
    IN  IF hits = {}
        THEN [ ID |-> None, Province_ID |-> None, County_ID |-> None,
               District_ID |-> None, Household_Count |-> None, Population |-> None ]
        ELSE LET r == table[CHOOSE i \in hits : TRUE]
             IN  [ ID |-> r.ID, Province_ID |-> r.Province_ID, County_ID |-> r.County_ID,
                   District_ID |-> r.District_ID, Household_Count |-> r.Household_Count,
                   Population |-> r.Population ]

\* pd.merge(old, new, how="outer", on=column, suffixes=("_Old", "_New"),
\* validate="1:1", indicator=True): one row per key of either table; of the
\* suffixed columns, those a transformation table may read
MergeUnits(old_table, new_table, column) ==
    LET old_keys == { old_table[i][column] : i \in 1..Len(old_table) }
        new_keys == { new_table[i][column] : i \in 1..Len(new_table) }
        keys == SortCodes(old_keys \cup new_keys)
    IN  [ i \in 1..Len(keys) |->
            LET old == SideColumns(old_table, column, keys[i])
                new == SideColumns(new_table, column, keys[i])
            IN  [ Key |-> keys[i],
                  ID_Old |-> old.ID,
                  Province_ID_Old |-> old.Province_ID,
                  County_ID_Old |-> old.County_ID,
                  District_ID_Old |-> old.District_ID,
                  Household_Count_Old |-> old.Household_Count,
                  Population_Old |-> old.Population,
                  ID_New |-> new.ID,
                  Province_ID_New |-> new.Province_ID,
                  County_ID_New |-> new.County_ID,
                  District_ID_New |-> new.District_ID,
                  Household_Count_New |-> new.Household_Count,
                  Population_New |-> new.Population,
                  _merge |-> IF keys[i] \notin new_keys THEN "left_only"
                             ELSE IF keys[i] \notin old_keys THEN "right_only"
                             ELSE "both" ] ]

PairLess(a, b) == LexLess(a[1], b[1]) \/ (a[1] = b[1] /\ LexLess(a[2], b[2]))

RECURSIVE SortPairs(_)
\* the (new, old) pairs of a set, sorted by new and then old
SortPairs(S) ==
    IF S = {} THEN <<>>
    ELSE LET first == CHOOSE c \in S : \A d \in S : d = c \/ PairLess(c, d)
         IN  <<first>> \o SortPairs(S \ {first})

\* _create_transformation_table with groupby(..., dropna=False): a row with a
\* null group key makes a group of its own
_create_transformation_table_keepna(df, rtype) ==
    LET new == rtype \o "_ID_New"
        old == rtype \o "_ID_Old"
        groups == SortPairs({ <<df[i][new], df[i][old]>> : i \in 1..Len(df) })
    IN  [ g \in 1..Len(groups) |->
            LET members == SelectSeq(df, LAMBDA r : <<r[new], r[old]>> = groups[g])
            IN  [ New_ID |-> groups[g][1],
                  Old_ID |-> groups[g][2],
                  Shared_Region_Count |->
                      Len(SelectSeq(members, LAMBDA r : r.ID_New # None)),
                  Shared_Household_Count |->
                      SumSeq([ i \in 1..Len(members) |-> Fill0(members[i].Household_Count_New) ]),
                  Shared_Population |->
                      SumSeq([ i \in 1..Len(members) |-> Fill0(members[i].Population_New) ]) ] ]

\* groupby([f"{region_type}_ID_New", f"{region_type}_ID_Old"], as_index=False)
\* .aggregate(count, sum, sum): a row with a null group key is in no group, the
\* groups come sorted by their keys, count counts the non-null ID_New and sum
\* skips the nulls
_create_transformation_table(df, rtype) ==
    LET new == rtype \o "_ID_New"
        old == rtype \o "_ID_Old"
        grouped == SelectSeq(df, LAMBDA r : r[new] # None /\ r[old] # None)
        groups == SortPairs({ <<grouped[i][new], grouped[i][old]>> : i \in 1..Len(grouped) })
    IN  [ g \in 1..Len(groups) |->
            LET members == SelectSeq(grouped, LAMBDA r : <<r[new], r[old]>> = groups[g])
            IN  [ New_ID |-> groups[g][1],
                  Old_ID |-> groups[g][2],
                  Shared_Region_Count |->
                      Len(SelectSeq(members, LAMBDA r : r.ID_New # None)),
                  Shared_Household_Count |->
                      SumSeq([ i \in 1..Len(members) |-> Fill0(members[i].Household_Count_New) ]),
                  Shared_Population |->
                      SumSeq([ i \in 1..Len(members) |-> Fill0(members[i].Population_New) ]) ] ]

_create_village_transformation_table(year, rtype) ==
    LET previous_year == get_previous_year(GeoYears, year)
    IN  _create_transformation_table(
            MergeUnits(create_village_table(previous_year), create_village_table(year),
                       "Village_ID"),
            rtype)

_create_city_transformation_table(year, rtype) ==
    LET previous_year == get_previous_year(GeoYears, year)
    IN  _create_transformation_table(
            MergeUnits(create_city_table(previous_year), create_city_table(year),
                       "City_ID"),
            rtype)

----------------------------------------------------------------------------
(* matchmaker.common: the population transformation table *)

\* the row of a transformation table with the key pair, zeros where it has none:
\* the outer merge leaves nulls there and .fillna(0) fills them
PartOf(table, pair) ==
    LET hits == { i \in 1..Len(table) : <<table[i].New_ID, table[i].Old_ID>> = pair }
    IN  IF hits = {}
        THEN [ Shared_Region_Count |-> 0, Shared_Household_Count |-> 0,
               Shared_Population |-> 0 ]
        ELSE table[CHOOSE i \in hits : TRUE]

PairsOf(table) == [ i \in 1..Len(table) |-> <<table[i].New_ID, table[i].Old_ID>> ]

\* MergedPairs with how="inner": the pairs both tables have
MergedPairsInner(city, village, sorted) ==
    SelectSeq(PairsOf(city), LAMBDA q : q \in Range(PairsOf(village)))

\* the key pairs of the outer merge, in the order of its rows.  pandas documents
\* "outer: sort keys lexicographically"; its releases before 2.2 keep the left
\* table's keys first and append the keys only the right table has.
MergedPairs(city, village, sorted) ==
    IF sorted
    THEN SortPairs(Range(PairsOf(city)) \cup Range(PairsOf(village)))
    ELSE PairsOf(city)
         \o SelectSeq(PairsOf(village), LAMBDA q : q \notin Range(PairsOf(city)))

\* PopulationShare without the factor 100: a fraction, not a percentage
PopulationShareFraction(shared_population, total) ==
    IF total = 0 THEN None ELSE <<shared_population, total>>

\* s / s.sum() * 100 within one new region: the exact value <<num, den>> of the
\* quotient, None for the NaN of 0 / 0
PopulationShare(shared_population, total) ==
    IF total = 0 THEN None ELSE <<100 * shared_population, total>>

create_population_transformation_table(city, village, sorted) ==
    LET pairs == MergedPairs(city, village, sorted)
        merged ==
            [ i \in 1..Len(pairs) |->
                LET c == PartOf(city, pairs[i])
                    v == PartOf(village, pairs[i])
                IN  [ New_ID |-> pairs[i][1],
                      Old_ID |-> pairs[i][2],
                      Shared_Region_Count_City |-> c.Shared_Region_Count,
                      Shared_Household_Count_City |-> c.Shared_Household_Count,
                      Shared_Population_City |-> c.Shared_Population,
                      Shared_Region_Count_Village |-> v.Shared_Region_Count,
                      Shared_Household_Count_Village |-> v.Shared_Household_Count,
                      Shared_Population_Village |-> v.Shared_Population,
                      Shared_Household_Count |->
                          c.Shared_Household_Count + v.Shared_Household_Count,
                      Shared_Population |->
                          c.Shared_Population + v.Shared_Population ] ]
        GroupSum(new_id) ==
            SumSeq([ i \in 1..Len(merged) |->
                       IF merged[i].New_ID = new_id THEN merged[i].Shared_Population ELSE 0 ])
    IN  [ i \in 1..Len(merged) |->
            [ Population_Share |->
                  PopulationShare(merged[i].Shared_Population, GroupSum(merged[i].New_ID)) ]
            @@ merged[i] ]

----------------------------------------------------------------------------
(* matchmaker.common: the many-to-one mapping *)

\* a > b on floats: False when either is NaN
ShareGreater(a, b) == a # None /\ b # None /\ a[1] * b[2] > b[1] * a[2]

\* SortsBefore with ascending=[True, True]
SortsBeforeAscending(a, b) ==
    \/ LexLess(a.New_ID, b.New_ID)
    \/ /\ a.New_ID = b.New_ID
       /\ \/ ShareGreater(b.Population_Share, a.Population_Share)
          \/ a.Population_Share # None /\ b.Population_Share = None

\* whether row a sorts strictly before row b under
\* sort_values([New_ID, "Population_Share"], ascending=[True, False]), NaN last
SortsBefore(a, b) ==
    \/ LexLess(a.New_ID, b.New_ID)
    \/ /\ a.New_ID = b.New_ID
       /\ \/ ShareGreater(a.Population_Share, b.Population_Share)
          \/ a.Population_Share # None /\ b.Population_Share = None

RECURSIVE InsertRowUnstable(_, _)
\* InsertRow of a sort that is not stable: the row goes before the rows it ties with
InsertRowUnstable(row, table) ==
    IF table = <<>> THEN <<row>>
    ELSE IF ~ SortsBefore(Head(table), row) THEN <<row>> \o table
    ELSE <<Head(table)>> \o InsertRowUnstable(row, Tail(table))

RECURSIVE InsertRow(_, _)
\* row put into a sorted table behind every row it does not sort before
InsertRow(row, table) ==
    IF table = <<>> THEN <<row>>
    ELSE IF SortsBefore(row, Head(table)) THEN <<row>> \o table
    ELSE <<Head(table)>> \o InsertRow(row, Tail(table))

RECURSIVE SortValues(_)
\* sort_values: a stable sort, rows that compare equal keep their order
SortValues(table) ==
    IF table = <<>> THEN <<>>
    ELSE InsertRow(table[Len(table)], SortValues(SubSeq(table, 1, Len(table) - 1)))

\* Selected with duplicated(keep=False): no row of a repeated New_ID is selected
SelectedKeepFalse(table, i) ==
    \A j \in (1..Len(table)) \ {i} : table[j].New_ID # table[i].New_ID

\* - df[New_ID].duplicated(keep="first"): True on the first row of each New_ID
Selected(table, i) == \A j \in 1..(i - 1) : table[j].New_ID # table[i].New_ID

create_many_to_one_mapping_documentation(table) ==
    LET sorted == SortValues(table)
    IN  [ i \in 1..Len(sorted) |-> [ Selected |-> Selected(sorted, i) ] @@ sorted[i] ]

\* Series.to_dict(): the index values are the keys, a later row of a key
\* overwrites an earlier one
ToDict(rows) ==
    [ k \in { rows[i].New_ID : i \in 1..Len(rows) } |->
        rows[CHOOSE i \in 1..Len(rows) :
               /\ rows[i].New_ID = k
               /\ \A j \in (i + 1)..Len(rows) : rows[j].New_ID # k].Old_ID ]

create_many_to_one_mapping(doc) ==
    ToDict(SelectSeq(doc, LAMBDA r : r.Selected))

----------------------------------------------------------------------------
(* Calls and their outcomes *)

\* no call made yet
NoCall == [method |-> ""]

NoOutcome == [raised |-> "", value |-> None]

\* the call returned v
Return(v) == [raised |-> "", value |-> <<v>>]

\* the call raised the exception e
Raise(e) == [raised |-> e, value |-> None]

\* d[key] of a Python dict: the value, or KeyError
DictGet(d, key) == IF key \in DOMAIN d THEN Return(d[key]) ELSE Raise("KeyError")

\* the parts of the state a specification does not use
IndexIdle == raw_files = <<>>

ReconciliationIdle ==
    /\ provinces_csv = <<>>
    /\ counties_csv = <<>>
    /\ non_standard_codes = <<>>
    /\ provincial_standards = NoOutcome
    /\ transformations = <<>>
    /\ ept_mappings = <<>>

VersionIdle == internal_results = <<>>

MatchmakerIdle ==
    /\ census_results = <<>>
    /\ region_type = ""
    /\ city_tt = <<>>
    /\ village_tt = <<>>
    /\ population_table = <<>>
    /\ documentation = <<>>
    /\ mapping = <<>>

----------------------------------------------------------------------------
(* The call create_many_to_one_mapping(TargetYear, region_type) over the stores *)

\* the stores, and a call for a region type among `types`
InitFor(types) ==
    \E old_places \in [Units -> Places \cup {NoPlace}],
       new_places \in [Units -> Places \cup {NoPlace}],
       held \in [Units -> CensusChoices],
       rtype \in types :
        /\ geographical_divisions =
               (GeoYears[1] :> Snapshot(GeoYears[1], old_places))
               @@ (GeoYears[2] :> Snapshot(GeoYears[2], new_places))
        /\ census_results = Census(get_nearest_year(CensusYears, TargetYear, TRUE), held)
        /\ region_type = rtype
        /\ pc = "start"
        /\ city_tt = <<>>
        /\ village_tt = <<>>
        /\ population_table = <<>>
        /\ documentation = <<>>
        /\ mapping = <<>>
        /\ call = NoCall
        /\ outcome = NoOutcome
        /\ IndexIdle
        /\ ReconciliationIdle
        /\ VersionIdle

Init == InitFor(RegionTypes)

\* the first argument of pd.merge in create_population_transformation_table
CreateCityTransformationTable ==
    /\ pc = "start"
    /\ city_tt' = _create_city_transformation_table(TargetYear, region_type)
    /\ pc' = "city"
    /\ UNCHANGED <<geographical_divisions, census_results, region_type,
                   village_tt, population_table, documentation, mapping>>
    /\ UNCHANGED <<call, outcome, index_vars, reconciliation_vars, version_vars>>

\* the second argument of pd.merge
CreateVillageTransformationTable ==
    /\ pc = "city"
    /\ village_tt' = _create_village_transformation_table(TargetYear, region_type)
    /\ pc' = "village"
    /\ UNCHANGED <<geographical_divisions, census_results, region_type,
                   city_tt, population_table, documentation, mapping>>
    /\ UNCHANGED <<call, outcome, index_vars, reconciliation_vars, version_vars>>

\* the merge, .fillna(0) and .assign of create_population_transformation_table
CreatePopulationTransformationTable ==
    /\ pc = "village"
    /\ \E sorted \in BOOLEAN :
           population_table' =
               create_population_transformation_table(city_tt, village_tt, sorted)
    /\ pc' = "table"
    /\ UNCHANGED <<geographical_divisions, census_results, region_type,
                   city_tt, village_tt, documentation, mapping>>
    /\ UNCHANGED <<call, outcome, index_vars, reconciliation_vars, version_vars>>

CreateManyToOneMappingDocumentation ==
    /\ pc = "table"
    /\ documentation' = create_many_to_one_mapping_documentation(population_table)
    /\ pc' = "documentation"
    /\ UNCHANGED <<geographical_divisions, census_results, region_type,
                   city_tt, village_tt, population_table, mapping>>
    /\ UNCHANGED <<call, outcome, index_vars, reconciliation_vars, version_vars>>

CreateManyToOneMapping ==
    /\ pc = "documentation"
    /\ mapping' = create_many_to_one_mapping(documentation)
    /\ pc' = "done"
    /\ UNCHANGED <<geographical_divisions, census_results, region_type,
                   city_tt, village_tt, population_table, documentation>>
    /\ UNCHANGED <<call, outcome, index_vars, reconciliation_vars, version_vars>>

Next ==
    \/ CreateCityTransformationTable
    \/ CreateVillageTransformationTable
    \/ CreatePopulationTransformationTable
    \/ CreateManyToOneMappingDocumentation
    \/ CreateManyToOneMapping

Spec == Init /\ [][Next]_vars

----------------------------------------------------------------------------
(* Properties of the many-to-one mapping *)

\* the new-region codes of the population transformation table
TableCodes == { population_table[i].New_ID : i \in 1..Len(population_table) }

\* the rows of a table that belong to a new-region code
RowsOf(table, code) == { i \in 1..Len(table) : table[i].New_ID = code }

\* C1: for every new-region code of the population transformation table exactly
\* one row of the documentation view is Selected, and the returned mapping has
\* one entry for each of these codes and no entry for any other code.
C1_OneSelectedRowPerCode ==
    pc = "done" =>
        /\ \A code \in TableCodes :
              /\ Cardinality({ i \in RowsOf(documentation, code) :
                                 documentation[i].Selected }) = 1
              /\ code \in DOMAIN mapping
        /\ DOMAIN mapping \subseteq TableCodes
        /\ Cardinality(DOMAIN mapping) =
               Cardinality({ i \in 1..Len(documentation) : documentation[i].Selected })

\* a finished call whose table has two codes, one of them with several rows
C1_Witness ==
    /\ pc = "done"
    /\ Cardinality(TableCodes) >= 2
    /\ \E code \in TableCodes : Cardinality(RowsOf(population_table, code)) >= 2

\* C2: the old-region code the mapping gives a new-region code is that of a
\* table row of the new code whose Population_Share no row of the same new code
\* exceeds.
C2_SelectedShareIsMaximal ==
    pc = "done" =>
        \A n \in DOMAIN mapping :
            \E i \in RowsOf(population_table, n) :
                /\ population_table[i].Old_ID = mapping[n]
                /\ \A j \in RowsOf(population_table, n) :
                      ~ ShareGreater(population_table[j].Population_Share,
                                     population_table[i].Population_Share)

\* a finished call that chose a row which is not the first of its code in the
\* table, over an earlier row of a smaller share
C2_Witness ==
    /\ pc = "done"
    /\ \E n \in DOMAIN mapping :
          \E i, j \in RowsOf(population_table, n) :
              /\ i < j
              /\ population_table[j].Old_ID = mapping[n]
              /\ ShareGreater(population_table[j].Population_Share,
                              population_table[i].Population_Share)

\* the village and city rows of a year's snapshot, as the store holds them
StoredUnits(year) ==
    SelectSeq(geographical_divisions[year],
              LAMBDA r : _filter_villages(r) \/ _filter_cities(r))

\* the stable key of a stored unit
StableKey(r) ==
    IF _filter_cities(r) THEN <<"City_ID", r.Rural_District_or_City_ID>>
    ELSE <<"Village_ID", r.Village_ID>>

\* the population the census holds of a stored unit, a null read as 0
CensusPopulation(r) ==
    LET key == StableKey(r)
        column == IF key[1] = "City_ID" THEN "Rural_District_or_City_ID" ELSE "Village_ID"
        hits == { i \in 1..Len(census_results) :
                    /\ census_results[i][column] = key[2]
                    /\ _filter_cities(census_results[i]) = _filter_cities(r) }
    IN  IF hits = {} THEN 0 ELSE Fill0(census_results[CHOOSE i \in hits : TRUE].Population)

\* county "0312" of the previous year splits into "0312" and "0313": every unit
\* of either year lies in both years, all of them in old county "0312", and
\* each new county gets half of the villages and half of the population
SplitScenario ==
    LET old == StoredUnits(get_previous_year(GeoYears, TargetYear))
        new == StoredUnits(TargetYear)
        InCounty(rows, c) ==
            SelectSeq(rows, LAMBDA r : r.Province_ID = <<0, 3>> /\ r.County_ID = c)
        VillageCount(rows) == Len(SelectSeq(rows, _filter_villages))
        Pop(rows) == SumSeq([ i \in 1..Len(rows) |-> CensusPopulation(rows[i]) ])
    IN  /\ region_type = "County"
        /\ { StableKey(old[i]) : i \in 1..Len(old) } = { StableKey(new[i]) : i \in 1..Len(new) }
        /\ InCounty(old, <<1, 2>>) = old
        /\ Len(InCounty(new, <<1, 2>>)) + Len(InCounty(new, <<1, 3>>)) = Len(new)
        /\ VillageCount(InCounty(new, <<1, 2>>)) = VillageCount(InCounty(new, <<1, 3>>))
        /\ VillageCount(InCounty(new, <<1, 2>>)) > 0
        /\ Pop(InCounty(new, <<1, 2>>)) = Pop(InCounty(new, <<1, 3>>))
        /\ Pop(InCounty(new, <<1, 2>>)) > 0

\* the Population_Share of every Selected row of the documentation view is
\* `percent`
SelectedSharesAre(percent) ==
    \A i \in 1..Len(documentation) :
        documentation[i].Selected =>
            /\ documentation[i].Population_Share # None
            /\ documentation[i].Population_Share[1] =
                   percent * documentation[i].Population_Share[2]

SplitMapping ==
    (<<0, 3, 1, 2>> :> <<0, 3, 1, 2>>) @@ (<<0, 3, 1, 3>> :> <<0, 3, 1, 2>>)

\* C3, as claimed: in the split scenario the mapping sends new "0312" and new
\* "0313" to old "0312", and the selected row of each new county has a
\* Population_Share of 50.
C3_SplitSharesAreHalf ==
    (pc = "done" /\ SplitScenario) => (mapping = SplitMapping /\ SelectedSharesAre(50))

\* C3, amended: in the split scenario the mapping sends new "0312" and new
\* "0313" to old "0312", and the selected row of each new county has a
\* Population_Share of 100: the share is taken of the new county's population,
\* all of which comes from old "0312".
C3_SplitMapsBothHalvesToOldCounty ==
    (pc = "done" /\ SplitScenario) => (mapping = SplitMapping /\ SelectedSharesAre(100))

\* a finished call on a split of county "0312"
C3_Witness == pc = "done" /\ SplitScenario

----------------------------------------------------------------------------
(* Properties of the population transformation table *)

\* the population transformation table has just been returned
TableBuilt == pc = "table"

PreviousYear == get_previous_year(GeoYears, TargetYear)

\* the village and the city unit table of a year, one after the other
UnitTables(year) == create_village_table(year) \o create_city_table(year)

\* the stable key of a row of a unit table
UnitKey(r) ==
    IF _filter_cities(r) THEN <<"City_ID", r.City_ID>> ELSE <<"Village_ID", r.Village_ID>>

\* the code of the region of type region_type a unit-table row lies in
RegionOf(r) == r[region_type \o "_ID"]

\* the rows of the unit tables `old` with the stable key of row r
Counterparts(old, r) == { o \in old : UnitKey(o) = UnitKey(r) }

\* the rows of the unit tables `new` with a counterpart in `old`
Matched(old, new) == { r \in new : Counterparts(old, r) # {} }

\* the (new, old) region pair of a matched unit
PairOf(old, r) == <<RegionOf(r), RegionOf(CHOOSE o \in Counterparts(old, r) : TRUE)>>

\* the rows of the previous and of the target year's unit tables
OldUnits == Range(UnitTables(PreviousYear))

NewUnits == Range(UnitTables(TargetYear))

RECURSIVE PopulationOf(_)
\* the summed Population of a set of unit-table rows, a null counted as 0
PopulationOf(rows) ==
    IF rows = {} THEN 0
    ELSE LET r == CHOOSE x \in rows : TRUE
         IN  Fill0(r.Population) + PopulationOf(rows \ {r})

\* the sum of a column over the table rows of a new-region code
ColumnSum(code, column) ==
    SumSeq([ i \in 1..Len(population_table) |->
               IF population_table[i].New_ID = code
               THEN population_table[i][column] ELSE 0 ])

\* C4, as claimed: for every new-region code the Shared_Population of its rows
\* sums to the population of all village and city units the new year's unit
\* tables place in the region, units without a counterpart included.
C4_PopulationConserved ==
    TableBuilt =>
        LET new == NewUnits
        IN  \A code \in { RegionOf(r) : r \in new } :
                ColumnSum(code, "Shared_Population") =
                    PopulationOf({ r \in new : RegionOf(r) = code })

\* C5: for every new-region code the Shared_Population of its rows sums to the
\* new-year population of the units of the region whose stable key the previous
\* year's unit table has too; units of one year only add nothing.
C5_SharedPopulationIsMatchedPopulation ==
    TableBuilt =>
        LET new == NewUnits
            matched == Matched(OldUnits, new)
        IN  \A code \in { RegionOf(r) : r \in new } \cup TableCodes :
                ColumnSum(code, "Shared_Population") =
                    PopulationOf({ r \in matched : RegionOf(r) = code })

\* a table of a region with a counted unit of both years and with a counted
\* unit the previous year lacks
C5_Witness ==
    /\ TableBuilt
    /\ LET new == NewUnits
           matched == Matched(OldUnits, new)
       IN  \E code \in TableCodes :
              /\ ColumnSum(code, "Shared_Population") > 0
              /\ \E r \in new \ matched : RegionOf(r) = code /\ Fill0(r.Population) > 0

\* C6: every unit whose stable key both years' unit tables have is counted in
\* exactly one row, that of its (new, old) region pair, and the village and city
\* Shared_Region_Count of all rows sum to the number of matched units.
C6_MatchedUnitsCountedOnce ==
    TableBuilt =>
        LET old == OldUnits
            matched == Matched(old, NewUnits)
            pairs == [ r \in matched |-> PairOf(old, r) ]
            Counted(i) == population_table[i].Shared_Region_Count_City
                          + population_table[i].Shared_Region_Count_Village
            Pair(i) == <<population_table[i].New_ID, population_table[i].Old_ID>>
        IN  /\ \A r \in matched :
                  Cardinality({ i \in 1..Len(population_table) : Pair(i) = pairs[r] }) = 1
            /\ \A i \in 1..Len(population_table) :
                  Counted(i) = Cardinality({ r \in matched : pairs[r] = Pair(i) })
            /\ SumSeq([ i \in 1..Len(population_table) |-> Counted(i) ])
                   = Cardinality(matched)

\* a table over matched and unmatched units, with a row that counts a village
\* and a city
C6_Witness ==
    /\ TableBuilt
    /\ LET new == NewUnits
           matched == Matched(OldUnits, new)
       IN  matched # {} /\ matched # new
    /\ \E i \in 1..Len(population_table) :
          /\ population_table[i].Shared_Region_Count_City > 0
          /\ population_table[i].Shared_Region_Count_Village > 0

\* the Shared_Population a transformation table holds for a region pair, 0
\* where it has no row of the pair
Contribution(table, new_id, old_id) ==
    SumSeq([ i \in 1..Len(table) |->
               IF table[i].New_ID = new_id /\ table[i].Old_ID = old_id
               THEN table[i].Shared_Population ELSE 0 ])

\* C7: for every new-region code of a positive total Shared_Population, the
\* Population_Share of each row is 100 times the row's Shared_Population (the
\* city plus the village contribution, a missing one counted as 0) divided by
\* the total; the shares of the code sum to 100 and each lies in 0..100.
C7_ShareIsPercentOfTotal ==
    TableBuilt =>
        \A i \in 1..Len(population_table) :
            LET row == population_table[i]
                share == row.Population_Share
                total == ColumnSum(row.New_ID, "Shared_Population")
                contributed == Contribution(city_tt, row.New_ID, row.Old_ID)
                               + Contribution(village_tt, row.New_ID, row.Old_ID)
            IN  total > 0 =>
                    /\ row.Shared_Population = contributed
                    /\ share # None
                    /\ share[2] > 0
                    /\ share[1] * total = 100 * contributed * share[2]
                    /\ 0 <= share[1] /\ share[1] <= 100 * share[2]
                    /\ SumSeq([ j \in 1..Len(population_table) |->
                                  IF population_table[j].New_ID = row.New_ID
                                  THEN (population_table[j].Population_Share[1] * total)
                                       \div population_table[j].Population_Share[2]
                                  ELSE 0 ]) = 100 * total

\* a table with a code of two rows, one of them without a village contribution
\* and one without a city contribution
C7_Witness ==
    /\ TableBuilt
    /\ \E i, j \in 1..Len(population_table) :
          /\ population_table[i].New_ID = population_table[j].New_ID
          /\ population_table[i].Shared_Population_City > 0
          /\ Contribution(village_tt, population_table[i].New_ID,
                          population_table[i].Old_ID) = 0
          /\ population_table[j].Shared_Population_Village > 0
          /\ Contribution(city_tt, population_table[j].New_ID,
                          population_table[j].Old_ID) = 0

\* C8, as claimed: the rows of a new-region code whose total Shared_Population
\* is zero have a defined, numeric Population_Share.
C8_ZeroTotalShareIsDefined ==
    TableBuilt =>
        \A i \in 1..Len(population_table) :
            ColumnSum(population_table[i].New_ID, "Shared_Population") = 0 =>
                population_table[i].Population_Share # None

----------------------------------------------------------------------------
(* Determinism of the selection, and regions without a predecessor *)

\* two shares tie: equal numbers, or both NaN
SharesTie(a, b) ==
    \/ a = None /\ b = None
    \/ a # None /\ b # None /\ a[1] * b[2] = b[1] * a[2]

\* the first row, in the order of the population transformation table, among
\* the rows of a new-region code whose share no row of the code exceeds
FirstBestRow(code) ==
    CHOOSE i \in RowsOf(population_table, code) :
        /\ \A j \in RowsOf(population_table, code) :
              ~ ShareGreater(population_table[j].Population_Share,
                             population_table[i].Population_Share)
        /\ \A j \in RowsOf(population_table, code) :
              j < i => ~ SharesTie(population_table[j].Population_Share,
                                   population_table[i].Population_Share)

\* C9: the mapping is a function of the population transformation table alone:
\* every new-region code goes to the old code of the first table row among the
\* rows of the code with the largest Population_Share, so a tie is won by the
\* tied row that comes first in the table, and equal tables give equal mappings.
C9_FirstTiedRowIsSelected ==
    pc = "done" =>
        mapping = [ code \in TableCodes |-> population_table[FirstBestRow(code)].Old_ID ]

\* a finished call with two old regions of the same, largest share of a new
\* region
C9_Witness ==
    /\ pc = "done"
    /\ \E code \in TableCodes :
          \E i, j \in RowsOf(population_table, code) :
              /\ i < j
              /\ population_table[i].Population_Share # None
              /\ SharesTie(population_table[i].Population_Share,
                           population_table[j].Population_Share)
              /\ mapping[code] = population_table[i].Old_ID

\* the code of the region of type region_type a stored row lies in, with the
\* province prefix of a county; None where the row has no such region
StoredRegionOf(r) ==
    IF r[region_type \o "_ID"] = None THEN None
    ELSE IF region_type = "County" THEN r.Province_ID \o r.County_ID
    ELSE r[region_type \o "_ID"]

\* the region codes of a year's snapshot
StoredCodes(year) ==
    { StoredRegionOf(geographical_divisions[year][i]) :
        i \in 1..Len(geographical_divisions[year]) } \ { None }

\* C10, as claimed: a new-region code that is not among the previous year's
\* region codes has no entry in the mapping.
C10_NewCodeHasNoEntry ==
    pc = "done" =>
        \A code \in StoredCodes(TargetYear) \ StoredCodes(PreviousYear) :
            code \notin DOMAIN mapping

\* C10, amended: a new-region code none of whose village and city units has a
\* counterpart under the stable key in the previous year's unit tables has no
\* entry in the mapping.
C10_CodeWithoutMatchedUnitHasNoEntry ==
    pc = "done" =>
        LET new == NewUnits
            matched == Matched(OldUnits, new)
        IN  \A code \in StoredCodes(TargetYear) :
                (\A r \in matched : RegionOf(r) # code) => code \notin DOMAIN mapping

\* a finished call with a new region, absent from the previous year, whose
\* units are all new, next to a region that has an entry
C10_Witness ==
    /\ pc = "done"
    /\ DOMAIN mapping # {}
    /\ LET new == NewUnits
           matched == Matched(OldUnits, new)
       IN  \E r \in new :
              /\ RegionOf(r) \notin StoredCodes(PreviousYear)
              /\ \A q \in matched : RegionOf(q) # RegionOf(r)

----------------------------------------------------------------------------
(* The temporal index: the calls of a Dataset's year queries *)

\* a dataset has at most MaxYears years
MaxYears == 3

\* the years a dataset may have lie in 1390..1390 + YearSpan
YearSpan == 3

YearPool == { 1390 + i : i \in 0..YearSpan }

\* the years a call may ask about: the pool and a year on either side of it
QueryYears == { 1389 + i : i \in 0..(YearSpan + 2) }

\* the keys of a dict are distinct
Distinct(s) == \A i, j \in 1..Len(s) : s[i] = s[j] => i = j

YearLists ==
    UNION { { s \in [1..n -> YearPool] : Distinct(s) } : n \in 0..MaxYears }

\* Dataset.years
years_of(files) == files

IndexInit ==
    /\ raw_files \in YearLists
    /\ pc = "index"
    /\ call = NoCall
    /\ outcome = NoOutcome
    /\ geographical_divisions = <<>>
    /\ MatchmakerIdle
    /\ ReconciliationIdle
    /\ VersionIdle

IndexUnchanged ==
    UNCHANGED <<geographical_divisions, pc, raw_files,
                matchmaker_vars, reconciliation_vars, version_vars>>

GetNextYear ==
    /\ pc = "index"
    /\ \E year \in QueryYears :
        /\ call' = [method |-> "get_next_year", year |-> year]
        /\ outcome' = IF year \in DOMAIN NextYearDict(years_of(raw_files))
                      THEN Return(get_next_year(years_of(raw_files), year))
                      ELSE Raise("KeyError")
    /\ IndexUnchanged

GetPreviousYear ==
    /\ pc = "index"
    /\ \E year \in QueryYears :
        /\ call' = [method |-> "get_previous_year", year |-> year]
        /\ outcome' = IF year \in DOMAIN PreviousYearDict(years_of(raw_files))
                      THEN Return(get_previous_year(years_of(raw_files), year))
                      ELSE Raise("KeyError")
    /\ IndexUnchanged

\* min() of an empty list raises ValueError
GetNearestYear ==
    /\ pc = "index"
    /\ \E year \in QueryYears, prefer_later \in BOOLEAN :
        /\ call' = [method |-> "get_nearest_year", year |-> year,
                    prefer_later |-> prefer_later]
        /\ outcome' = IF years_of(raw_files) = <<>>
                      THEN Raise("ValueError")
                      ELSE Return(get_nearest_year(years_of(raw_files), year, prefer_later))
    /\ IndexUnchanged

IndexNext ==
    \/ GetNextYear
    \/ GetPreviousYear
    \/ GetNearestYear

IndexSpec == IndexInit /\ [][IndexNext]_vars

----------------------------------------------------------------------------
(* Properties of the temporal index *)

\* the positions of a year in the list of years
PositionsOf(year) == { i \in 1..Len(raw_files) : raw_files[i] = year }

Called(method) == call.method = method

\* C11: get_next_year(year) raises KeyError when year is the last year of the
\* list (or no year of it) and otherwise returns the year right after it in the
\* list; get_previous_year(year) raises KeyError when year is the first year of
\* the list (or no year of it) and otherwise returns the year right before it.
C11_NextAndPreviousYear ==
    /\ Called("get_next_year") =>
          LET at == PositionsOf(call.year)
          IN  IF at = {} \/ Len(raw_files) \in at
              THEN outcome = Raise("KeyError")
              ELSE \E i \in at : outcome = Return(raw_files[i + 1])
    /\ Called("get_previous_year") =>
          LET at == PositionsOf(call.year)
          IN  IF at = {} \/ 1 \in at
              THEN outcome = Raise("KeyError")
              ELSE \E i \in at : outcome = Return(raw_files[i - 1])

\* the next year of the last of three years was asked for, and the previous
\* year of a middle one
C11_Witness ==
    /\ Len(raw_files) = 3
    /\ \/ /\ Called("get_next_year")
          /\ call.year = raw_files[3]
          /\ outcome.raised = "KeyError"
       \/ /\ Called("get_previous_year")
          /\ call.year = raw_files[2]
          /\ outcome = Return(raw_files[1])

Distance(y, year) == Abs(y - year)

\* C12: get_nearest_year(year, prefer_later) returns a year of the dataset that
\* no year of the dataset is nearer to `year` than; of two equally near years it
\* returns the larger one if prefer_later and the smaller one otherwise.
C12_NearestYear ==
    (Called("get_nearest_year") /\ raw_files # <<>>) =>
        /\ outcome.raised = ""
        /\ LET y == outcome.value[1]
           IN  /\ y \in Range(raw_files)
               /\ \A z \in Range(raw_files) :
                    /\ Distance(y, call.year) <= Distance(z, call.year)
                    /\ Distance(z, call.year) = Distance(y, call.year) =>
                           IF call.prefer_later THEN z <= y ELSE y <= z

\* two years are equally near and the call prefers the earlier one
C12_Witness ==
    /\ Called("get_nearest_year")
    /\ ~ call.prefer_later
    /\ outcome.raised = ""
    /\ \E z \in Range(raw_files) :
          /\ z > outcome.value[1]
          /\ Distance(z, call.year) = Distance(outcome.value[1], call.year)

----------------------------------------------------------------------------
(* matchmaker.province and matchmaker.county: the standard of an external dataset *)

\* _count_differences looks at the internal years from 1363 on
FloorYear == 1363

\* the standard year whose transformations are empty
BaseStandardYear == 1365

CountyRow(year, p, c) ==
    [ Year |-> year, ID |-> p \o c, Province_ID |-> p, County_ID |-> c,
      District_ID |-> None, Rural_District_or_City_ID |-> None,
      Village_ID |-> None, Region_Type |-> "County" ]

\* pd.read_parquet(directories.geographical_divisions): the rows of every year
ReadStore(store) == UNION { Range(store[y]) : y \in DOMAIN store }

\* .pivot(index="Year", columns="ID", values=column).notna():
\* year -> ID -> whether the year has a value for the ID
PivotNotNa(rows, column) ==
    LET index == { r.Year : r \in rows }
        columns == { r.ID : r \in rows }
    IN  [ y \in index |->
            [ id \in columns |->
                \E r \in rows : r.Year = y /\ r.ID = id /\ r[column] # None ] ]

\* .drop_duplicates(keep="last"): the years whose row no later year has
DropDuplicatesKeepLast(pivot) ==
    { y \in DOMAIN pivot : \A z \in DOMAIN pivot : z > y => pivot[z] # pivot[y] }

\* .drop_duplicates(): the years whose row no earlier year has
DropDuplicatesKeepFirst(pivot) ==
    { y \in DOMAIN pivot : \A z \in DOMAIN pivot : z < y => pivot[z] # pivot[y] }

\* .apply(lambda s: set(s.loc[s].index), axis="columns") on the deduplicated pivot:
\* era year -> the IDs the year has
geodiv_sets(store, rtype, column) ==
    LET pivot == PivotNotNa({ r \in ReadStore(store) : r.Region_Type = rtype }, column)
    IN  [ y \in DropDuplicatesKeepFirst(pivot) |->
            { id \in DOMAIN pivot[y] : pivot[y][id] } ]

\* the era years whose set includes s
IncludingYears(geodiv, s) == { y \in DOMAIN geodiv : s \subseteq geodiv[y] }

\* geodiv_provinces.eq(s).loc[lambda r: r].index
EqualYears(geodiv, s) == { y \in DOMAIN geodiv : geodiv[y] = s }

\* province.find_geodiv_standard: .index[0] of an empty index raises IndexError
province_find_geodiv_standard(store, csv) ==
    LET geodiv_provinces == geodiv_sets(store, "Province", "Province_ID")
    IN  IF \E year \in DOMAIN csv : EqualYears(geodiv_provinces, csv[year]) = {}
        THEN Raise("IndexError")
        ELSE Return([ year \in DOMAIN csv |->
                        Min(EqualYears(geodiv_provinces, csv[year])) ])

\* a.update(b)
Update(a, b) ==
    [ k \in DOMAIN a \cup DOMAIN b |-> IF k \in DOMAIN b THEN b[k] ELSE a[k] ]

RECURSIVE UpdateLater(_, _, _)
\* annual_ept_mappings[year] after the inner loop over epts.items()
UpdateLater(year, epts, annual) ==
    IF epts = <<>> THEN annual
    ELSE UpdateLater(year, Tail(epts),
             IF year < Head(epts)[1] THEN Update(annual, Head(epts)[2]) ELSE annual)

\* the inner loop with `year <= standard_year` for its condition
AnnualMappingOrSame(year, epts) == UpdateLater(year - 1, epts, <<>>)

\* annual_ept_mappings[year] = {}, then the inner loop
AnnualMapping(year, epts) == UpdateLater(year, epts, <<>>)

\* build_annual_ept_mappings, epts the items of
\* _get_extra_provincial_transformations(provincial_standards) in their order
build_annual_ept_mappings(standards, epts) ==
    [ year \in DOMAIN standards |-> AnnualMapping(year, epts) ]

\* _replace_values_in_set
_replace_values_in_set(input_set, mapping_dict) ==
    { IF item \in DOMAIN mapping_dict THEN mapping_dict[item] ELSE item :
        item \in input_set }

\* get_counties_code: the IDs a year of counties.csv lists, corrected
get_counties_code(listed, name, codes) ==
    _replace_values_in_set(listed, IF name \in DOMAIN codes THEN codes[name] ELSE <<>>)

\* the years _count_differences looks at
CandidateYears(geodiv_counties) == { y \in DOMAIN geodiv_counties : y >= FloorYear }

\* _count_differences: candidate year -> len of the difference
_count_differences(dataset_counties, geodiv_counties, mappings) ==
    [ y \in CandidateYears(geodiv_counties) |->
        Cardinality(_replace_values_in_set(dataset_counties, mappings[y])
                    \ geodiv_counties[y]) ]

\* s.loc[s.eq(0)].index
ZeroYears(differences) == { y \in DOMAIN differences : differences[y] = 0 }

\* county.find_geodiv_standard after province.find_geodiv_standard and
\* build_annual_ept_mappings: ept_mappings[s.name] raises KeyError for a candidate
\* year that is no key, .index[0] raises IndexError where no difference is 0
county_find_geodiv_standard(store, csv, codes, mappings) ==
    LET geodiv_counties == geodiv_sets(store, "County", "County_ID")
        differences(year) ==
            _count_differences(get_counties_code(csv[year], year, codes),
                               geodiv_counties, mappings)
    IN  IF \E y \in CandidateYears(geodiv_counties) : y \notin DOMAIN mappings
        THEN Raise("KeyError")
        ELSE IF \E year \in DOMAIN csv : ZeroYears(differences(year)) = {}
        THEN Raise("IndexError")
        ELSE Return([ year \in DOMAIN csv |-> Min(ZeroYears(differences(year))) ])

----------------------------------------------------------------------------
(* The call county.find_geodiv_standard(external_dataset) over the store *)

\* the years the store has snapshots of, the first one before FloorYear
InternalYears == { 1360, 1365, 1370 }

\* the years of the external dataset
ExternalYears == { 1365, 1370 }

ProvinceIDs == { <<0, 0>>, <<0, 1>>, <<0, 2>> }

\* the provinces the country may have in a year: 00, then 01, then 02
ProvinceSets == { { <<0, 0>> }, { <<0, 0>>, <<0, 1>> }, ProvinceIDs }

\* the counties a snapshot may hold: province code and county code
CountyCodes == { <<<<0, 0>>, <<0, 1>>>>, <<<<0, 1>>, <<0, 1>>>> }

CountyIDs == { c[1] \o c[2] : c \in CountyCodes }

\* a snapshot of provinces and counties, sorted by ID
DivisionSnapshot(year, provinces, counties) ==
    SeqOfSet({ ProvinceRow(year, p) : p \in provinces }
             \cup { CountyRow(year, c[1], c[2]) : c \in counties })

\* the snapshots a year may have: its provinces and at least one county, each
\* in a province of the year
DivisionChoices ==
    { d \in [ provinces : ProvinceSets, counties : SUBSET CountyCodes ] :
        /\ d.counties # {}
        /\ \A c \in d.counties : c[1] \in d.provinces }

\* the province sets a year of provinces.csv may list
ListedProvinces == ProvinceSets

\* year -> external code -> internal code
NonStandardChoices ==
    { <<>>, 1370 :> (<<0, 1, 0, 1>> :> <<0, 0, 0, 1>>) }

\* the documentation views create_one_to_one_mapping_documentation(year,
\* "County") may return, sorted and with one Selected row for every new county:
\* a county that moved between provinces beside one that stayed, a county with
\* a selected and an unselected predecessor in other provinces, and a county
\* that stayed and has an unselected predecessor in another province
OneToOneDocumentations ==
    { << [New_ID |-> <<0, 0, 0, 1>>, Old_ID |-> <<0, 0, 0, 1>>, Selected |-> TRUE],
         [New_ID |-> <<0, 1, 0, 1>>, Old_ID |-> <<0, 0, 0, 1>>, Selected |-> TRUE] >>,
      << [New_ID |-> <<0, 1, 0, 1>>, Old_ID |-> <<0, 2, 0, 1>>, Selected |-> TRUE],
         [New_ID |-> <<0, 1, 0, 1>>, Old_ID |-> <<0, 0, 0, 1>>, Selected |-> FALSE] >>,
      << [New_ID |-> <<0, 1, 0, 1>>, Old_ID |-> <<0, 1, 0, 1>>, Selected |-> TRUE],
         [New_ID |-> <<0, 1, 0, 1>>, Old_ID |-> <<0, 0, 0, 1>>, Selected |-> FALSE] >> }

\* transformations[year] without the comparison of the province prefixes
ExtraProvincialTransformationOfAll(doc) ==
    ToDict(SelectSeq(doc, LAMBDA r : r.Selected))

\* transformations[year]: the selected rows whose first two characters differ,
\* as a dict New_County_ID -> Old_County_ID
ExtraProvincialTransformation(doc) ==
    ToDict(SelectSeq(SelectSeq(doc, LAMBDA r : r.Selected),
                     LAMBDA r : SubSeq(r.New_ID, 1, 2) # SubSeq(r.Old_ID, 1, 2)))

\* the orders a set may be iterated in
Orders(S) == { s \in [1..Cardinality(S) -> S] : Distinct(s) }

ReconciliationInit ==
    /\ \E divisions \in [InternalYears -> DivisionChoices] :
        /\ geographical_divisions =
               [ y \in InternalYears |->
                   DivisionSnapshot(y, divisions[y].provinces, divisions[y].counties) ]
        \* some county era lies at or after FloorYear
        /\ \E y \in InternalYears :
              y >= FloorYear /\ divisions[y].counties # divisions[1360].counties
    /\ provinces_csv \in [ExternalYears -> ListedProvinces]
    /\ counties_csv \in [ExternalYears -> (SUBSET CountyIDs) \ { {} }]
    /\ non_standard_codes \in NonStandardChoices
    /\ provincial_standards = NoOutcome
    /\ transformations = <<>>
    /\ ept_mappings = <<>>
    /\ pc = "reconcile"
    /\ call = [method |-> "county.find_geodiv_standard"]
    /\ outcome = NoOutcome
    /\ MatchmakerIdle
    /\ IndexIdle
    /\ VersionIdle

ReconciliationUnchanged ==
    UNCHANGED <<geographical_divisions, provinces_csv, counties_csv,
                non_standard_codes, call, matchmaker_vars, index_vars, version_vars>>

\* provincial_standards = province.find_geodiv_standard("hbsir"); what it
\* raises, the call raises
ProvinceFindGeodivStandard ==
    /\ pc = "reconcile"
    /\ provincial_standards' =
           province_find_geodiv_standard(geographical_divisions, provinces_csv)
    /\ IF provincial_standards'.raised = ""
       THEN pc' = "province" /\ UNCHANGED outcome
       ELSE pc' = "done" /\ outcome' = provincial_standards'
    /\ UNCHANGED <<transformations, ept_mappings>>
    /\ ReconciliationUnchanged

\* set(provincial_standards.values()).difference({1365})
standard_years(standards) == { standards[y] : y \in DOMAIN standards } \ { BaseStandardYear }

\* ept_mappings = build_annual_ept_mappings(provincial_standards), with
\* _get_extra_provincial_transformations: {1365: {}}, then the standard years in
\* the order of the set and the dict each one's documentation makes; the
\* documentation views are kept in `documentation`, year -> rows
BuildAnnualEptMappings ==
    /\ pc = "province"
    /\ \E order \in Orders(standard_years(provincial_standards.value[1])),
          made \in [standard_years(provincial_standards.value[1]) -> OneToOneDocumentations] :
        /\ documentation' = made
        /\ transformations' =
               << <<BaseStandardYear, <<>> >> >>
               \o [ i \in 1..Len(order) |->
                      <<order[i], ExtraProvincialTransformation(made[order[i]])>> ]
    /\ ept_mappings' =
           build_annual_ept_mappings(provincial_standards.value[1], transformations')
    /\ pc' = "ept"
    /\ UNCHANGED <<provincial_standards, outcome>>
    /\ UNCHANGED <<geographical_divisions, provinces_csv, counties_csv,
                   non_standard_codes, call, index_vars, version_vars>>
    /\ UNCHANGED <<census_results, region_type, city_tt, village_tt, population_table,
                   mapping>>

\* the return of county.find_geodiv_standard
CountyFindGeodivStandard ==
    /\ pc = "ept"
    /\ outcome' = county_find_geodiv_standard(geographical_divisions, counties_csv,
                                              non_standard_codes, ept_mappings)
    /\ pc' = "done"
    /\ UNCHANGED <<provincial_standards, transformations, ept_mappings>>
    /\ ReconciliationUnchanged

ReconciliationNext ==
    \/ ProvinceFindGeodivStandard
    \/ BuildAnnualEptMappings
    \/ CountyFindGeodivStandard

ReconciliationSpec == ReconciliationInit /\ [][ReconciliationNext]_vars

\* build_annual_ept_mappings(provincial_standards) called on its own, as
\* results.hbsir.create_county_mapping_table calls it
EptDatasetYears == { 1363, 1368, 1370 }

EptStandardYears == { 1365, 1370, 1375 }

EptInit ==
    /\ \E standards \in [EptDatasetYears -> EptStandardYears] :
          provincial_standards = Return(standards)
    /\ pc = "province"
    /\ call = [method |-> "build_annual_ept_mappings"]
    /\ outcome = NoOutcome
    /\ geographical_divisions = <<>>
    /\ provinces_csv = <<>>
    /\ counties_csv = <<>>
    /\ non_standard_codes = <<>>
    /\ transformations = <<>>
    /\ ept_mappings = <<>>
    /\ MatchmakerIdle
    /\ IndexIdle
    /\ VersionIdle

EptNext == BuildAnnualEptMappings

EptSpec == EptInit /\ [][EptNext]_vars

----------------------------------------------------------------------------
(* Properties of the reconciliation *)

\* the IDs of the rows of a region type the store has for a year
StoredIDs(year, rtype) ==
    { r.ID : r \in { q \in Range(geographical_divisions[year]) : q.Region_Type = rtype } }

\* the era years: the years whose set of IDs no earlier year has
Eras(rtype) ==
    { y \in DOMAIN geographical_divisions :
        \A z \in DOMAIN geographical_divisions :
            z < y => StoredIDs(z, rtype) # StoredIDs(y, rtype) }

\* the eras whose provinces are the ones provinces.csv lists for a year
MatchingProvinceEras(year) ==
    { y \in Eras("Province") : StoredIDs(y, "Province") = provinces_csv[year] }

ProvinceStepDone == pc \in { "province", "ept", "done" } /\ geographical_divisions # <<>>

CountyCallDone == pc = "done" /\ call.method = "county.find_geodiv_standard"

\* the set counties.csv lists for a year, after the non-standard-code correction
\* and the EPT remapping of an internal year
RemappedCounties(year, internal_year) ==
    _replace_values_in_set(
        get_counties_code(counties_csv[year], year, non_standard_codes),
        ept_mappings[internal_year])

SymmetricDifference(A, B) == (A \ B) \cup (B \ A)

\* C14: the internal year county.find_geodiv_standard returns for a year of the
\* external dataset is at or above 1363, and the symmetric difference of the
\* corrected and remapped external county set and that year's county IDs is
\* empty: the two sets are equal.
C14_CountyStandardHasEqualSet ==
    (CountyCallDone /\ outcome.raised = "") =>
        \A year \in DOMAIN counties_csv :
            LET internal_year == outcome.value[1][year]
            IN  /\ internal_year >= FloorYear
                /\ SymmetricDifference(RemappedCounties(year, internal_year),
                                       StoredIDs(internal_year, "County")) = {}

\* the candidate years of the county reconciliation
CountyCandidates == { y \in Eras("County") : y >= FloorYear }

\* the candidates whose county IDs hold every county of the remapped external
\* set: the difference the code counts is zero
ZeroDifferenceYears(year) ==
    { y \in CountyCandidates :
        RemappedCounties(year, y) \ StoredIDs(y, "County") = {} }

\* the candidates whose county IDs are the remapped external set
EqualSetYears(year) ==
    { y \in CountyCandidates : RemappedCounties(year, y) = StoredIDs(y, "County") }

\* C15: the reconciliation ends in an error and returns no mapping whenever, for
\* some year of the external dataset, no candidate year has zero difference or
\* more than one has: it never picks one of several zero-difference years.
C15_NoneOrSeveralZeroYearsRaise ==
    /\ ProvinceStepDone =>
          ((\E year \in DOMAIN provinces_csv :
                Cardinality(MatchingProvinceEras(year)) # 1)
            => provincial_standards.raised # "")
    /\ CountyCallDone =>
          ((/\ provincial_standards.raised = ""
            /\ \E year \in DOMAIN counties_csv :
                  \/ ZeroDifferenceYears(year) = {}
                  \/ Cardinality(EqualSetYears(year)) > 1)
            => outcome.raised # "")

\* province-style matching on the sets of the county reconciliation: the
\* candidate year whose county IDs are the set counties.csv lists for the year
MatchingCountyEras(year) ==
    { y \in CountyCandidates : StoredIDs(y, "County") = counties_csv[year] }

NoProvinceReassignment ==
    /\ \A i \in 1..Len(transformations) : transformations[i][2] = <<>>
    /\ non_standard_codes = <<>>

\* C17: with every EPT map empty and no non-standard-code correction, the county
\* reconciliation returns for every year of the external dataset the year that
\* province-style matching returns on the same sets, the candidate year whose
\* county IDs equal the listed set, and fails where that fails.
C17_CountyReducesToProvinceMatching ==
    (CountyCallDone /\ provincial_standards.raised = "" /\ NoProvinceReassignment) =>
        IF \E year \in DOMAIN counties_csv : MatchingCountyEras(year) = {}
        THEN outcome.raised # ""
        ELSE /\ outcome.raised = ""
             /\ \A year \in DOMAIN counties_csv :
                    MatchingCountyEras(year) = { outcome.value[1][year] }

BuildDone == pc = "ept" /\ call.method = "build_annual_ept_mappings"

\* the EPT maps of the standard years later than a year, in iteration order
LaterMaps(year) ==
    SelectSeq(transformations, LAMBDA item : item[1] > year)

\* C16 as claimed: the map of every year holds every entry, key and value, of
\* every EPT map whose standard year is later than the year, and no entry that
\* only a standard year at or before it has.
C16_AnnualMapHoldsEveryLaterEntry ==
    BuildDone =>
        \A year \in DOMAIN ept_mappings :
            LET later == LaterMaps(year)
            IN  /\ \A i \in 1..Len(later) : \A k \in DOMAIN later[i][2] :
                      /\ k \in DOMAIN ept_mappings[year]
                      /\ ept_mappings[year][k] = later[i][2][k]
                /\ \A k \in DOMAIN ept_mappings[year] :
                      \E i \in 1..Len(later) :
                          /\ k \in DOMAIN later[i][2]
                          /\ later[i][2][k] = ept_mappings[year][k]

\* C16 amended: the map of every year has the keys of the EPT maps whose
\* standard year is later than the year and no other key, and gives each key the
\* value of the last of these maps, in iteration order, that has the key.
C16_AnnualMapHoldsLastLaterEntry ==
    BuildDone =>
        /\ DOMAIN ept_mappings = DOMAIN provincial_standards.value[1]
        /\ \A year \in DOMAIN ept_mappings :
            LET later == LaterMaps(year)
                having(k) == { i \in 1..Len(later) : k \in DOMAIN later[i][2] }
            IN  /\ DOMAIN ept_mappings[year] =
                       UNION { DOMAIN later[i][2] : i \in 1..Len(later) }
                /\ \A k \in DOMAIN ept_mappings[year] :
                       ept_mappings[year][k] = later[Max(having(k))][2][k]

\* a year has two later standard years whose maps give one key two values, and
\* a standard year of its own whose map is not empty
C16_Witness ==
    /\ BuildDone
    /\ \E year \in DOMAIN ept_mappings :
          LET later == LaterMaps(year)
          IN  \E i, j \in 1..Len(later) : \E k \in DOMAIN later[i][2] :
                 /\ k \in DOMAIN later[j][2]
                 /\ later[i][2][k] # later[j][2][k]
    /\ \E year \in DOMAIN ept_mappings : \E i \in 1..Len(transformations) :
          /\ transformations[i][1] = year
          /\ transformations[i][2] # <<>>

----------------------------------------------------------------------------
(* data_cleaner.general: normalize_text.  A string is the tuple of its          *)
(* characters; a character is named by a TLA+ string.                           *)

\* _replace_arabic_characters on one character
ReplaceArabicCharacter(c) ==
    CASE c = "YEH_ARABIC" -> "YEH"
      [] c = "YEH_HAMZA" -> "YEH"
      [] c = "ALEF_MAKSURA" -> "YEH"
      [] c = "ALEF_HAMZA_ABOVE" -> "ALEF"
      [] c = "ALEF_HAMZA_BELOW" -> "ALEF"
      [] c = "WAW_HAMZA" -> "WAW"
      [] c = "KAF_ARABIC" -> "KAF"
      [] c = "HEH_YEH" -> "HEH"
      [] c = "TEH_MARBUTA" -> "HEH"
      [] OTHER -> c

\* INVISIBLE_CHARS + UNWANTED_SYMBOLS, the ones the names of the model use
RemovedCharacters == { "ZWSP", "SOFT_HYPHEN", "RLM", ".", ",", "_", "-" }

RECURSIVE CollapseSpaces(_)
\* s.str.replace("\\s+", " ", regex=True)
CollapseSpaces(s) ==
    IF Len(s) < 2 THEN s
    ELSE IF s[1] = " " /\ s[2] = " " THEN CollapseSpaces(Tail(s))
    ELSE <<s[1]>> \o CollapseSpaces(Tail(s))

RECURSIVE Strip(_)
\* s.str.strip()
Strip(s) ==
    IF s = <<>> THEN s
    ELSE IF Head(s) = " " THEN Strip(Tail(s))
    ELSE IF s[Len(s)] = " " THEN Strip(SubSeq(s, 1, Len(s) - 1))
    ELSE s

RECURSIVE CloseParentheses(_)
\* s.str.replace("\\( ", "(", regex=True) and s.str.replace(" \\)", ")", regex=True)
\* on a string whose spaces are single
CloseParentheses(s) ==
    IF Len(s) < 2 THEN s
    ELSE IF s[1] = "(" /\ s[2] = " " THEN <<"(">> \o CloseParentheses(Tail(Tail(s)))
    ELSE IF s[1] = " " /\ s[2] = ")" THEN CloseParentheses(Tail(s))
    ELSE <<s[1]>> \o CloseParentheses(Tail(s))

\* _clean_farsi_text
_clean_farsi_text(s) ==
    LET replaced == [ i \in 1..Len(s) |-> ReplaceArabicCharacter(s[i]) ]
        spaced == [ i \in 1..Len(s) |-> IF replaced[i] = "ZWNJ" THEN " " ELSE replaced[i] ]
        kept == SelectSeq(spaced, LAMBDA c : c \notin RemovedCharacters)
    IN  Strip(CloseParentheses(CollapseSpaces(kept)))

\* normalize_text with the spaces removed before the text is cleaned
normalize_text_spaces_first(s) ==
    LET unspaced == SelectSeq(s, LAMBDA c : c # " ")
        cleaned == _clean_farsi_text(unspaced)
    IN  [ i \in 1..Len(cleaned) |->
            IF cleaned[i] = "ALEF_MADDA" THEN "ALEF" ELSE cleaned[i] ]

\* normalize_text on one string
normalize_text(s) ==
    LET cleaned == _clean_farsi_text(s)
        plain == [ i \in 1..Len(cleaned) |->
                     IF cleaned[i] = "ALEF_MADDA" THEN "ALEF" ELSE cleaned[i] ]
    IN  SelectSeq(plain, LAMBDA c : c # " ")

\* normalize_text on a cell of a column: a null stays null
NormalizeCell(cell) == IF cell = None THEN None ELSE Some(normalize_text(cell[1]))

----------------------------------------------------------------------------
(* matchmaker.version_handler *)

\* .pivot(columns="ID", index="Year", values=column): year -> ID -> the value,
\* null where the year has no row of the ID
Pivot(rows, column) ==
    LET index == { r.Year : r \in rows }
        columns == { r.ID : r \in rows }
        cell(y, id) ==
            LET found == { r \in rows : r.Year = y /\ r.ID = id }
            IN  IF found = {} THEN None ELSE Some((CHOOSE r \in found : TRUE)[column])
    IN  [ y \in index |-> [ id \in columns |-> cell(y, id) ] ]

RECURSIVE SortYears(_)
\* the years of an index, ascending
SortYears(S) ==
    IF S = {} THEN <<>>
    ELSE <<Min(S)>> \o SortYears(S \ { Min(S) })

\* pivot.reindex(pivot_index).set_axis(pivot_years).transpose(), written to and
\* read from the csv file: version year -> ID -> name
VersionTable(pivot) ==
    LET normalized_pivot ==
            [ y \in DOMAIN pivot |->
                [ id \in DOMAIN pivot[y] |-> NormalizeCell(pivot[y][id]) ] ]
        pivot_index == SortYears(DropDuplicatesKeepLast(normalized_pivot))
        pivot_years == SortYears(DropDuplicatesKeepFirst(normalized_pivot))
    IN  [ y \in Range(pivot_years) |->
            pivot[pivot_index[CHOOSE i \in 1..Len(pivot_years) : pivot_years[i] = y]] ]

\* create_province_version_table: the content of provinces_versions.csv
create_province_version_table(store) ==
    VersionTable(Pivot({ r \in ReadStore(store) : r.Region_Type = "Province" },
                       "Province_Name"))

\* _create_counties_version_table_for_province: the content of
\* {province_code}_counties_versions.csv
_create_counties_version_table_for_province(store, province_code) ==
    VersionTable(Pivot({ r \in ReadStore(store) :
                           r.Region_Type = "County" /\ r.Province_ID = province_code },
                       "County_Name"))

\* version_table.count(): version year -> the number of names
version_count(version_table) ==
    [ y \in DOMAIN version_table |->
        Cardinality({ id \in DOMAIN version_table[y] : version_table[y][id] # None }) ]

\* the search that takes the first version of the count
search_first_version_year(version_table, items, error) ==
    LET versions == { y \in DOMAIN version_table :
                        version_count(version_table)[y] = Len(items) }
    IN  IF versions = {} THEN Raise("KeyError") ELSE Return(Min(versions))

\* search_province_version_year and search_county_version_year, `error` what
\* the second raise raises
search_version_year(version_table, items, error) ==
    LET versions == { y \in DOMAIN version_table :
                        version_count(version_table)[y] = Len(items) }
    IN  IF versions = {} THEN Raise("KeyError")
        ELSE IF Cardinality(versions) # 1 THEN Raise(error)
        ELSE Return(CHOOSE y \in versions : TRUE)

search_province_version_year(version_table, items) ==
    search_version_year(version_table, items, "KeyError")

search_county_version_year(version_table, items) ==
    search_version_year(version_table, items, "Exception")

\* code_mapping: normalized name -> ID, the last ID of a name in the order of
\* the file
code_mapping(version_table, version_year) ==
    LET column == version_table[version_year]
        name(id) == NormalizeCell(column[id])
        last(key) == CHOOSE id \in DOMAIN column :
                        /\ name(id) = key
                        /\ \A other \in DOMAIN column :
                              name(other) = key => (other = id \/ LexLess(other, id))
    IN  [ key \in { name(id) : id \in DOMAIN column } |-> last(key) ]

\* codes: the items normalized and mapped, null where the name is no key
MapCodes(mapping_dict, items) ==
    [ i \in 1..Len(items) |->
        LET key == Some(normalize_text(items[i]))
        IN  IF key \in DOMAIN mapping_dict THEN mapping_dict[key] ELSE None ]

\* extract_codes without the assert
extract_codes_unchecked(version_table, items, searched) ==
    IF searched.raised # "" THEN searched
    ELSE Return(MapCodes(code_mapping(version_table, searched.value[1]), items))

\* extract_province_codes and extract_county_codes, `searched` the outcome of
\* the search: assert codes.isna().sum() == 0
extract_codes(version_table, items, searched) ==
    IF searched.raised # "" THEN searched
    ELSE LET codes == MapCodes(code_mapping(version_table, searched.value[1]), items)
         IN  IF \E i \in 1..Len(codes) : codes[i] = None
             THEN Raise("AssertionError")
             ELSE Return(codes)

extract_province_codes(version_table, items) ==
    extract_codes(version_table, items, search_province_version_year(version_table, items))

extract_county_codes(version_table, items) ==
    extract_codes(version_table, items, search_county_version_year(version_table, items))

----------------------------------------------------------------------------
(* The version tracker: the version tables are written, then a caller looks   *)
(* names up                                                                   *)

\* a call supplies at most MaxItems names
MaxItems == 2

VersionYears == { 1380, 1385, 1390 }

\* the names the store and the callers use; the first two are one name written
\* in two ways
RawNames ==
    { <<"YEH_ARABIC", "ZWNJ", "ALEF">>,
      <<"YEH", " ", "ALEF_MADDA", ".">>,
      <<"ALEF", "YEH">> }

NamedProvinceRow(year, p, name) ==
    [ Province_Name |-> name, County_Name |-> None ] @@ ProvinceRow(year, p)

NamedCountyRow(year, p, c, name) ==
    [ Province_Name |-> None, County_Name |-> name ] @@ CountyRow(year, p, c)

\* the province whose counties the county version table is made for
VersionProvince == <<0, 0>>

\* a snapshot: province 00 named `first`, and a second province named `second`
\* unless that is null; province 00 has a county for each of them with its name,
\* the second province a county of its own
NamedSnapshot(year, first, second) ==
    SeqOfSet(
        { NamedProvinceRow(year, <<0, 0>>, first),
          NamedCountyRow(year, <<0, 0>>, <<0, 1>>, first) }
        \cup (IF second = None THEN {}
              ELSE { NamedProvinceRow(year, <<0, 1>>, second),
                     NamedCountyRow(year, <<0, 0>>, <<0, 2>>, second),
                     NamedCountyRow(year, <<0, 1>>, <<0, 1>>, first) }))

ItemLists == UNION { [1..n -> RawNames] : n \in 0..MaxItems }

VersionInit ==
    /\ \E first \in [VersionYears -> RawNames],
          second \in [VersionYears -> RawNames \cup { None }] :
        geographical_divisions =
            [ y \in VersionYears |-> NamedSnapshot(y, first[y], second[y]) ]
    /\ internal_results = <<>>
    /\ pc = "version"
    /\ call = NoCall
    /\ outcome = NoOutcome
    /\ MatchmakerIdle
    /\ IndexIdle
    /\ ReconciliationIdle

VersionUnchanged ==
    UNCHANGED <<geographical_divisions, matchmaker_vars, index_vars, reconciliation_vars>>

CreateProvinceVersionTable ==
    /\ pc = "version"
    /\ internal_results' =
           ("provinces_versions" :> create_province_version_table(geographical_divisions))
    /\ pc' = "provinces"
    /\ UNCHANGED <<call, outcome>>
    /\ VersionUnchanged

\* create_counties_version_table, for the province of the model
CreateCountiesVersionTable ==
    /\ pc = "provinces"
    /\ internal_results' =
           internal_results @@
           ("counties_versions" :>
               _create_counties_version_table_for_province(geographical_divisions,
                                                           VersionProvince))
    /\ pc' = "counties"
    /\ UNCHANGED <<call, outcome>>
    /\ VersionUnchanged

SearchProvinceVersionYear ==
    /\ pc = "counties"
    /\ \E items \in ItemLists :
        /\ call' = [method |-> "search_province_version_year", items |-> items,
                    file |-> "provinces_versions"]
        /\ outcome' = search_province_version_year(
                          internal_results["provinces_versions"], items)
    /\ pc' = "done"
    /\ UNCHANGED internal_results
    /\ VersionUnchanged

SearchCountyVersionYear ==
    /\ pc = "counties"
    /\ \E items \in ItemLists :
        /\ call' = [method |-> "search_county_version_year", items |-> items,
                    file |-> "counties_versions"]
        /\ outcome' = search_county_version_year(
                          internal_results["counties_versions"], items)
    /\ pc' = "done"
    /\ UNCHANGED internal_results
    /\ VersionUnchanged

ExtractProvinceCodes ==
    /\ pc = "counties"
    /\ \E items \in ItemLists :
        /\ call' = [method |-> "extract_province_codes", items |-> items,
                    file |-> "provinces_versions"]
        /\ outcome' = extract_province_codes(
                          internal_results["provinces_versions"], items)
    /\ pc' = "done"
    /\ UNCHANGED internal_results
    /\ VersionUnchanged

ExtractCountyCodes ==
    /\ pc = "counties"
    /\ \E items \in ItemLists :
        /\ call' = [method |-> "extract_county_codes", items |-> items,
                    file |-> "counties_versions"]
        /\ outcome' = extract_county_codes(
                          internal_results["counties_versions"], items)
    /\ pc' = "done"
    /\ UNCHANGED internal_results
    /\ VersionUnchanged

VersionNext ==
    \/ CreateProvinceVersionTable
    \/ CreateCountiesVersionTable
    \/ SearchProvinceVersionYear
    \/ SearchCountyVersionYear
    \/ ExtractProvinceCodes
    \/ ExtractCountyCodes

VersionSpec == VersionInit /\ [][VersionNext]_vars

----------------------------------------------------------------------------
(* Properties of the version tracker *)

\* the rows of the store the version table of a file is made from
VersionRows(file) ==
    { r \in ReadStore(geographical_divisions) :
        IF file = "provinces_versions"
        THEN r.Region_Type = "Province"
        ELSE r.Region_Type = "County" /\ r.Province_ID = VersionProvince }

NameColumn(file) == IF file = "provinces_versions" THEN "Province_Name" ELSE "County_Name"

\* the normalized names of a year: ID -> name, null where the year has no row
NormalizedNames(file, year) ==
    [ id \in { r.ID : r \in VersionRows(file) } |->
        LET found == { r \in VersionRows(file) : r.Year = year /\ r.ID = id }
        IN  IF found = {} THEN None
            ELSE Some(normalize_text((CHOOSE r \in found : TRUE)[NameColumn(file)])) ]

SnapshotYears == DOMAIN geographical_divisions

\* the years a version era starts at: the first snapshot year, and every year
\* whose normalized names are not those of the snapshot year before it
EraStarts(file) ==
    { y \in SnapshotYears :
        \/ \A z \in SnapshotYears : y <= z
        \/ LET before == Max({ z \in SnapshotYears : z < y })
           IN  NormalizedNames(file, before) # NormalizedNames(file, y) }

Written(file) == file \in DOMAIN internal_results

\* C18: the version table of the provinces and the one of a province's counties
\* have one column per version era, a maximal run of consecutive snapshot years
\* with the same normalized names: a column starts at each year whose normalized
\* names differ from those of the year before, and nowhere else.
C18_OneColumnPerEra ==
    \A file \in { "provinces_versions", "counties_versions" } :
        Written(file) => DOMAIN internal_results[file] = EraStarts(file)

LookedUp == pc = "done" /\ "file" \in DOMAIN call

\* the number of regions a version of the looked-up file names
NamedCount(year) ==
    Cardinality({ id \in DOMAIN internal_results[call.file][year] :
                    internal_results[call.file][year][id] # None })

\* the versions that name as many regions as the call supplies names
CountedVersions ==
    { y \in DOMAIN internal_results[call.file] : NamedCount(y) = Len(call.items) }

Searched == LookedUp /\ call.method \in { "search_province_version_year",
                                           "search_county_version_year" }

\* C19: search_province_version_year and search_county_version_year return the
\* version year that alone names as many regions as names are supplied; with no
\* such version or several the call raises and returns no year.
C19_SearchReturnsTheOnlyCountedVersion ==
    Searched =>
        IF Cardinality(CountedVersions) = 1
        THEN outcome.raised = "" /\ outcome.value[1] \in CountedVersions
        ELSE outcome.raised # "" /\ outcome.value = None

\* a search among several versions returned a year
C19_Witness ==
    /\ Searched
    /\ outcome.raised = ""
    /\ Cardinality(DOMAIN internal_results[call.file]) > 1
    /\ Len(call.items) = 2

Extracted == LookedUp /\ call.method \in { "extract_province_codes",
                                            "extract_county_codes" }

\* the IDs a version gives the normalized name of item
CodesOf(year, item) ==
    { id \in DOMAIN internal_results[call.file][year] :
        NormalizeCell(internal_results[call.file][year][id]) = Some(normalize_text(item)) }

\* C20: extract_province_codes and extract_county_codes either return a list as
\* long as the supplied names whose i-th element is a code of the i-th name in
\* the selected version, or fail; they fail when the version is not selected or
\* a name has no code, and never return a null entry.
C20_ExtractIsAllOrNothing ==
    Extracted =>
        IF outcome.raised = ""
        THEN /\ Cardinality(CountedVersions) = 1
             /\ Len(outcome.value[1]) = Len(call.items)
             /\ \A i \in 1..Len(call.items) : \A y \in CountedVersions :
                    /\ outcome.value[1][i] # None
                    /\ outcome.value[1][i] \in CodesOf(y, call.items[i])
        ELSE \/ Cardinality(CountedVersions) # 1
             \/ \E i \in 1..Len(call.items) : \A y \in CountedVersions :
                    CodesOf(y, call.items[i]) = {}

\* two names were resolved, one of them written otherwise than the file has it
C20_Witness ==
    /\ Extracted
    /\ outcome.raised = ""
    /\ Len(call.items) = 2
    /\ outcome.value[1][1] # outcome.value[1][2]
    /\ \E i \in 1..2 : \A y \in CountedVersions :
          internal_results[call.file][y][outcome.value[1][i]] # Some(call.items[i])

----------------------------------------------------------------------------
(* Calls of functions that read no store: the call and its outcome are the    *)
(* whole state                                                                *)

StoresIdle ==
    /\ geographical_divisions = <<>>
    /\ MatchmakerIdle
    /\ IndexIdle
    /\ ReconciliationIdle
    /\ VersionIdle

StoresUnchanged ==
    UNCHANGED <<geographical_divisions, matchmaker_vars, index_vars,
                reconciliation_vars, version_vars>>

----------------------------------------------------------------------------
(* normalize_text applied to a name, and again to what it returned *)

\* a name has at most MaxLen characters
MaxLen == 3

\* one character of every kind normalize_text treats: two Arabic variants, alef
\* madda, the zero-width non-joiner, an invisible character, a stripped symbol,
\* the space, the parentheses and a plain letter
Characters ==
    { "YEH_ARABIC", "KAF_ARABIC", "ALEF_MADDA", "ZWNJ", "RLM", "-", " ", "(", ")", "BEH" }

Names == UNION { [1..n -> Characters] : n \in 0..MaxLen }

NormalizeInit ==
    /\ \E x \in Names : call = [method |-> "normalize_text", s |-> x]
    /\ outcome = NoOutcome
    /\ pc = "name"
    /\ StoresIdle

\* normalize_text(x)
NormalizeText ==
    /\ pc = "name"
    /\ outcome' = Return(normalize_text(call.s))
    /\ pc' = "once"
    /\ UNCHANGED call
    /\ StoresUnchanged

\* normalize_text(normalize_text(x))
NormalizeTextAgain ==
    /\ pc = "once"
    /\ call' = [method |-> "normalize_text", s |-> outcome.value[1]]
    /\ outcome' = Return(normalize_text(outcome.value[1]))
    /\ pc' = "twice"
    /\ StoresUnchanged

NormalizeNext ==
    \/ NormalizeText
    \/ NormalizeTextAgain

NormalizeSpec == NormalizeInit /\ [][NormalizeNext]_vars

\* C21: normalize_text is idempotent: normalizing what normalize_text returned
\* returns it unchanged, for every string over the characters it handles.
C21_NormalizeTextIsIdempotent ==
    (pc = "twice" /\ call.method = "normalize_text") => outcome = Return(call.s)

\* the second call got a name the first call had changed: its Arabic yeh and its
\* alef madda replaced
C21_Witness ==
    /\ pc = "twice"
    /\ call.method = "normalize_text"
    /\ call.s = <<"YEH", "(", "ALEF">>

----------------------------------------------------------------------------
(* results.hbsir: create_mapping_dict.  A mapping table is the sequence of its *)
(* rows [Dataset_Year, Dataset_ID, GeoDiv_ID], sorted by year and code.        *)

\* .drop_duplicates(["Dataset_ID", "GeoDiv_ID"]) without the dropping
KeepEveryRow(mapping_table) == mapping_table

\* .drop_duplicates(["Dataset_ID", "GeoDiv_ID"]): the first row of every pair
DropDuplicatePairs(mapping_table) ==
    LET first(i) == \A j \in 1..(i - 1) :
                        \/ mapping_table[j].Dataset_ID # mapping_table[i].Dataset_ID
                        \/ mapping_table[j].GeoDiv_ID # mapping_table[i].GeoDiv_ID
        RECURSIVE kept(_)
        kept(i) == IF i > Len(mapping_table) THEN <<>>
                   ELSE IF first(i) THEN <<mapping_table[i]>> \o kept(i + 1)
                   ELSE kept(i + 1)
    IN  kept(1)

\* .groupby("Dataset_ID")["Dataset_Year"].transform("count") at a row
GroupCount(rows, row) ==
    Cardinality({ i \in 1..Len(rows) : rows[i].Dataset_ID = row.Dataset_ID })

\* the value of a code in the mapping: one internal ID, or a dict year -> ID
SingleID(id) == [id |-> id]
ByYear(d) == [years |-> d]

\* mapping_series: one single-key dict per row
mapping_series(rows) ==
    [ i \in 1..Len(rows) |->
        IF GroupCount(rows, rows[i]) = 1
        THEN rows[i].Dataset_ID :> SingleID(rows[i].GeoDiv_ID)
        ELSE rows[i].Dataset_ID :> ByYear(rows[i].Dataset_Year :> rows[i].GeoDiv_ID) ]

RECURSIVE MergeParts(_, _, _)
\* the loop over mapping_series: a code already in the mapping has its dict
\* updated, a new code is added
MergeParts(parts, i, merged) ==
    IF i > Len(parts) THEN merged
    ELSE LET code == CHOOSE c \in DOMAIN parts[i] : TRUE
         IN  MergeParts(parts, i + 1,
                 IF code \in DOMAIN merged
                 THEN Update(merged,
                             code :> ByYear(Update(merged[code].years,
                                                   parts[i][code].years)))
                 ELSE Update(merged, parts[i]))

create_mapping_dict(mapping_table) ==
    MergeParts(mapping_series(DropDuplicatePairs(mapping_table)), 1, <<>>)

----------------------------------------------------------------------------
(* One call of create_mapping_dict on the mapping table of an external dataset *)

DatasetYears == { 1380, 1385, 1390 }

DatasetIDs == { <<0, 1>>, <<0, 2>> }

GeoDivIDs == { <<0, 0>>, <<0, 1>> }

\* the rows of the table of a year, in the order of the codes; matched[code] is
\* the internal ID the code is matched to, null where the year lacks the code
MappingRows(year, matched) ==
    LET codes == SortCodes({ c \in DatasetIDs : matched[c] # None })
    IN  [ i \in 1..Len(codes) |->
            [Dataset_Year |-> year, Dataset_ID |-> codes[i],
             GeoDiv_ID |-> matched[codes[i]][1]] ]

MappingDictInit ==
    /\ \E matched \in [DatasetYears -> [DatasetIDs -> { Some(g) : g \in GeoDivIDs } \cup { None }]] :
          call = [method |-> "create_mapping_dict",
                  mapping_table |-> MappingRows(1380, matched[1380])
                                    \o MappingRows(1385, matched[1385])
                                    \o MappingRows(1390, matched[1390])]
    /\ outcome = NoOutcome
    /\ pc = "table"
    /\ StoresIdle

CreateMappingDict ==
    /\ pc = "table"
    /\ outcome' = Return(create_mapping_dict(call.mapping_table))
    /\ pc' = "dict"
    /\ UNCHANGED call
    /\ StoresUnchanged

MappingDictNext == CreateMappingDict

MappingDictSpec == MappingDictInit /\ [][MappingDictNext]_vars

MappingDictDone == pc = "dict" /\ call.method = "create_mapping_dict"

\* the rows of an external code in the table
TableRowsOf(code) ==
    { i \in 1..Len(call.mapping_table) : call.mapping_table[i].Dataset_ID = code }

\* the internal IDs an external code is matched to in some year
MatchedIDs(code) == { call.mapping_table[i].GeoDiv_ID : i \in TableRowsOf(code) }

ExternalCodes == { call.mapping_table[i].Dataset_ID : i \in 1..Len(call.mapping_table) }

\* C22: create_mapping_dict maps an external code to a single internal ID exactly
\* when the code is matched to the same internal ID in every dataset year it
\* occurs in, and otherwise to a dict keyed by dataset years of the code whose
\* values are internal IDs of the code.
C22_SingleIDExactlyWhenStable ==
    MappingDictDone =>
        /\ DOMAIN outcome.value[1] = ExternalCodes
        /\ \A code \in ExternalCodes :
              IF Cardinality(MatchedIDs(code)) = 1
              THEN outcome.value[1][code] = SingleID(CHOOSE g \in MatchedIDs(code) : TRUE)
              ELSE /\ DOMAIN outcome.value[1][code] = { "years" }
                   /\ \A y \in DOMAIN outcome.value[1][code].years :
                         \E i \in TableRowsOf(code) :
                            /\ call.mapping_table[i].Dataset_Year = y
                            /\ call.mapping_table[i].GeoDiv_ID =
                                   outcome.value[1][code].years[y]

\* one code is matched to one ID in three years, the other code to two IDs
C22_Witness ==
    /\ MappingDictDone
    /\ \E code \in ExternalCodes :
          /\ Cardinality(TableRowsOf(code)) = 3
          /\ "id" \in DOMAIN outcome.value[1][code]
    /\ \E code \in ExternalCodes : "years" \in DOMAIN outcome.value[1][code]

\* C29: where create_mapping_dict returns a year-keyed dict for an external code,
\* for every dataset year Y of the code the entry with the greatest key not
\* exceeding Y is the internal ID the code is matched to in year Y.
C29_DictEntryInForceIsTheMatchedID ==
    MappingDictDone =>
        \A code \in ExternalCodes :
            "years" \in DOMAIN outcome.value[1][code] =>
                \A i \in TableRowsOf(code) :
                    LET keys == { k \in DOMAIN outcome.value[1][code].years :
                                    k <= call.mapping_table[i].Dataset_Year }
                    IN  /\ keys # {}
                        /\ outcome.value[1][code].years[Max(keys)] =
                               call.mapping_table[i].GeoDiv_ID

----------------------------------------------------------------------------
(* data_cleaner: create_clean_table on a raw table that has the ID columns,    *)
(* the name columns and DIAG, and no Region_Type column.  A table is the      *)
(* sequence of its rows; an empty string is <<>>.                              *)

\* _create_rural_district_or_city_id on a row
_create_rural_district_or_city_id(row) ==
    [ Rural_District_or_City_ID |->
        IF row.Rural_District_ID = <<>> THEN row.City_ID ELSE row.Rural_District_ID ]
    @@ row

\* table["Village_ID"].str.slice(3) for the years 1365 to 1385
SliceVillageID(year, row) ==
    IF year >= 1365 /\ year <= 1385
    THEN [ row EXCEPT !.Village_ID = SubSeq(@, 4, Len(@)) ]
    ELSE row

\* create_long_id on a row
create_long_id(row) ==
    [ ID |-> row.Province_ID \o row.County_ID \o row.District_ID
             \o row.Rural_District_or_City_ID \o row.Village_ID ]
    @@ row

\* create_rural_district_or_city_name on a row of a table with City_Name
create_rural_district_or_city_name(row) ==
    [ Rural_District_or_City_Name |->
        IF row.Rural_District_Name = <<>> THEN row.City_Name
        ELSE row.Rural_District_Name ]
    @@ row

\* the assignments of create_region_type_column but the last
RegionTypeCode(row) ==
    LET diag == IF row.DIAG # "" THEN "8" ELSE ""
        village == IF (row.Village_Name # <<>> \/ row.Village_ID # <<>>) /\ diag = ""
                   THEN "6" ELSE diag
        city == IF row.City_Name # <<>> THEN "5" ELSE village
        rural == IF /\ (row.Rural_District_Name # <<>>
                        \/ row.Rural_District_or_City_ID # <<>>)
                    /\ city = ""
                 THEN "4" ELSE city
        province == IF row.County_Name = <<>> THEN "1" ELSE rural
    IN  IF row.District_Name = <<>> /\ row.District_ID = <<>> /\ province = ""
        THEN "2" ELSE province

\* create_region_type_column without its last assignment
create_region_type_column_unfilled(row) ==
    [ Region_Type |-> RegionTypeCode(row) ] @@ row

\* create_region_type_column on a row of a table without Region_Type
create_region_type_column(row) ==
    [ Region_Type |-> IF RegionTypeCode(row) = "" THEN "3" ELSE RegionTypeCode(row) ]
    @@ row

\* the categories of region_type_dtype
RegionTypeCategories ==
    { "Province", "County", "District", "Rural_District", "City", "City_District",
      "City_Virtual_District", "Regular_Village", "Block_Village", "Non_Resident" }

\* .replace({...}).astype(region_type_dtype): no category, no value
RegionTypeLabel(code) ==
    LET labels == [ c \in { "1", "2", "3", "4", "5", "6", "8" } |->
                      CASE c = "1" -> "Province"
                        [] c = "2" -> "County"
                        [] c = "3" -> "District"
                        [] c = "4" -> "Rural_District"
                        [] c = "5" -> "City"
                        [] c = "6" -> "Regular_Village"
                        [] c = "8" -> "Block_Village" ]
        replaced == IF code \in DOMAIN labels THEN labels[code] ELSE code
    IN  IF replaced \in RegionTypeCategories THEN replaced ELSE "NaN"

\* .str.contains(sub)
Contains(name, sub) ==
    \E i \in 1..(Len(name) - Len(sub) + 1) : SubSeq(name, i, i + Len(sub) - 1) = sub

\* set_region_type_labels on a row
set_region_type_labels(row) ==
    LET label == RegionTypeLabel(row.Region_Type)
        name == row.Rural_District_or_City_Name
        district == IF label = "City"
                       /\ (\/ \E i \in 1..Len(name) : name[i] \in { "0", "1", "2" }
                           \/ Contains(name, <<"MEEM", "NOON", "TAH", "QAF", "HEH">>))
                    THEN "City_District" ELSE label
        virtual == IF district = "City"
                      /\ (row.Village_Name # <<>> \/ row.Village_ID # <<>>)
                   THEN "City_Virtual_District" ELSE district
    IN  [ row EXCEPT !.Region_Type =
            IF row.District_ID = <<9, 9>> THEN "Non_Resident" ELSE virtual ]

\* the end of a name that _remove_redundant_characters removes
Trimmed(name, letter) ==
    IF Len(name) >= 2 /\ name[Len(name) - 1] = " " /\ name[Len(name)] = letter
    THEN SubSeq(name, 1, Len(name) - 2)
    ELSE name

\* _remove_redundant_characters on a name
_remove_redundant_characters(name) == Trimmed(Trimmed(name, "TAH"), "PEH")

\* the IDs _remove_fake_cities keeps whatever their names
KeptCityIDs == { <<2, 2, 4, 5>>, <<2, 2, 7, 6>>, <<2, 5, 6, 9>>, <<2, 6, 0, 4>> }

\* _remove_fake_cities: a city named as a village of its district goes
_remove_fake_cities(table) ==
    LET fake_city_ids ==
            { table[i].ID : i \in
                { c \in 1..Len(table) :
                    /\ table[c].Region_Type = "City"
                    /\ \E v \in 1..Len(table) :
                          /\ table[v].Region_Type \in { "Regular_Village", "Block_Village" }
                          /\ table[v].Province_ID = table[c].Province_ID
                          /\ table[v].County_ID = table[c].County_ID
                          /\ table[v].District_ID = table[c].District_ID
                          /\ table[v].Village_Name = table[c].Rural_District_or_City_Name } }
    IN  SelectSeq(table, LAMBDA r : r.ID \notin fake_city_ids \/ r.ID \in KeptCityIDs)

\* _apply_adhoc_editions
_apply_adhoc_editions(table, year) ==
    CASE year = 1355 ->
           [ i \in 1..Len(table) |->
               IF table[i].Province_ID = <<0, 3>> /\ table[i].County_ID = <<1, 1>>
               THEN [ table[i] EXCEPT !.County_Name = <<"MEEM", "GHAIN", "ALEF", "NOON">> ]
               ELSE table[i] ]
      [] year = 1372 ->
           [ i \in 1..Len(table) |->
               [ table[i] EXCEPT
                   !.Province_Name = _remove_redundant_characters(@),
                   !.County_Name = _remove_redundant_characters(@),
                   !.District_Name = _remove_redundant_characters(@),
                   !.Rural_District_or_City_Name = _remove_redundant_characters(@),
                   !.Village_Name = _remove_redundant_characters(@) ] ]
      [] year = 1388 ->
           [ i \in 1..Len(table) |->
               IF table[i].Rural_District_or_City_ID = <<2, 3, 3, 7>>
               THEN [ table[i] EXCEPT !.ID = <<0, 7, 2, 6, 0, 2, 2, 3, 3, 7>>,
                                      !.County_ID = <<2, 6>>,
                                      !.District_ID = <<0, 2>> ]
               ELSE table[i] ]
      [] year = 1390 -> _remove_fake_cities(table)
      [] OTHER -> table

RECURSIVE SortValuesByID(_)
\* table.sort_values("ID")
SortValuesByID(table) ==
    IF table = <<>> THEN <<>>
    ELSE LET first == CHOOSE i \in 1..Len(table) :
                         \A j \in 1..Len(table) :
                            ~ LexLess(table[j].ID, table[i].ID) /\ (table[j].ID = table[i].ID => i <= j)
         IN  <<table[first]>>
             \o SortValuesByID([ k \in 1..(Len(table) - 1) |->
                                   IF k < first THEN table[k] ELSE table[k + 1] ])

CLEAN_TABLE_COLUMNS ==
    { "Year", "ID", "Province_ID", "Province_Name", "County_ID", "County_Name",
      "District_ID", "District_Name", "Rural_District_or_City_ID",
      "Rural_District_or_City_Name", "Village_ID", "Village_Name", "Region_Type" }

\* create_clean_table(year) on the raw table of the year
create_clean_table(year, raw) ==
    LET labelled ==
            [ i \in 1..Len(raw) |->
                set_region_type_labels(
                  create_region_type_column(
                    create_rural_district_or_city_name(
                      create_long_id(
                        SliceVillageID(year,
                          _create_rural_district_or_city_id(raw[i])))))) ]
        edited == _apply_adhoc_editions(labelled, year)
        sorted == SortValuesByID(SelectSeq(edited, LAMBDA r : r.ID # None))
    IN  [ i \in 1..Len(sorted) |->
            [ c \in CLEAN_TABLE_COLUMNS |->
                IF c = "Year" THEN year ELSE sorted[i][c] ] ]

----------------------------------------------------------------------------
(* One call of create_clean_table on the raw table of a year *)

\* the years with ad-hoc editions, and 1385, whose Village_ID is sliced
RawYears == { 1355, 1372, 1385, 1388, 1390 }

PlainName == <<"BEH">>

\* the province and county codes of a raw row
RawCounties ==
    { <<<<0, 7>>, <<>>>>, <<<<0, 7>>, <<0, 1>>>>, <<<<0, 3>>, <<1, 1>>>>,
      <<<<0, 8>>, <<0, 1>>>> }

\* Rural_District_ID and City_ID of a raw row
RawRuralDistrictsOrCities ==
    { <<<<>>, <<>>>>, <<<<0, 0, 0, 1>>, <<>>>>, <<<<>>, <<2, 3, 3, 7>>>>,
      <<<<2, 3, 3, 7>>, <<1, 0, 0, 1>>>> }

\* city names: none, plain, with a digit, with the word for a city district
RawCityNames ==
    { <<>>, PlainName, <<"BEH", "1">>, <<"MEEM", "NOON", "TAH", "QAF", "HEH">> }

\* every combination of empty and non-empty DIAG, names and IDs
RawRows ==
    { [ DIAG |-> diag,
        Province_ID |-> pc_ids[1], Province_Name |-> PlainName,
        County_ID |-> pc_ids[2], County_Name |-> county_name,
        District_ID |-> district_id, District_Name |-> district_name,
        Rural_District_ID |-> rc_ids[1], Rural_District_Name |-> rural_name,
        City_ID |-> rc_ids[2], City_Name |-> city_name,
        Village_ID |-> village_id, Village_Name |-> village_name ] :
      diag \in { "", "1" },
      pc_ids \in RawCounties,
      county_name \in { <<>>, PlainName },
      district_id \in { <<>>, <<0, 1>>, <<9, 9>> },
      district_name \in { <<>>, PlainName },
      rc_ids \in RawRuralDistrictsOrCities,
      rural_name \in { <<>>, PlainName },
      city_name \in RawCityNames,
      village_id \in { <<>>, <<0, 0, 0, 1, 2, 3>> },
      village_name \in { <<>>, <<"BEH", " ", "TAH">> } }

\* a village of the district of `row` that has the name of its city
VillageNamedAsCity(row) ==
    [ row EXCEPT !.DIAG = "", !.County_Name = PlainName, !.District_Name = PlainName,
                 !.Rural_District_ID = <<0, 0, 0, 2>>, !.Rural_District_Name = PlainName,
                 !.City_ID = <<>>, !.City_Name = <<>>,
                 !.Village_ID = <<0, 0, 0, 1, 2, 4>>, !.Village_Name = row.City_Name ]

CleanInit ==
    /\ \E year \in RawYears, row \in RawRows, with_village \in BOOLEAN :
          /\ with_village => year = 1390
          /\ call = [method |-> "create_clean_table", year |-> year,
                     table |-> IF with_village THEN <<row, VillageNamedAsCity(row)>>
                               ELSE <<row>>]
    /\ outcome = NoOutcome
    /\ pc = "raw"
    /\ StoresIdle

CreateCleanTable ==
    /\ pc = "raw"
    /\ geographical_divisions' = (call.year :> create_clean_table(call.year, call.table))
    /\ pc' = "clean"
    /\ UNCHANGED <<call, outcome, matchmaker_vars, index_vars, reconciliation_vars,
                   version_vars>>

CleanNext == CreateCleanTable

CleanSpec == CleanInit /\ [][CleanNext]_vars

CleanDone == pc = "clean" /\ call.method = "create_clean_table"

CleanRows == Range(geographical_divisions[call.year])

\* C23: after create_clean_table, for every year, the ID of every row is the
\* concatenation, in order, of the row's Province_ID, County_ID, District_ID,
\* Rural_District_or_City_ID and Village_ID.
C23_IDIsTheConcatenatedCodeChain ==
    CleanDone =>
        \A r \in CleanRows :
            r.ID = r.Province_ID \o r.County_ID \o r.District_ID
                   \o r.Rural_District_or_City_ID \o r.Village_ID

\* C30: for a table without a Region_Type column, create_region_type_column and
\* set_region_type_labels give every row one of the ten Region_Type values,
\* never an empty or null one.
C30_EveryRowHasARegionType ==
    CleanDone => \A r \in CleanRows : r.Region_Type \in RegionTypeCategories

\* a row with a county and a district and nothing below them, which only the
\* last assignment of create_region_type_column gives a type
C30_Witness ==
    /\ CleanDone
    /\ \E r \in CleanRows :
          /\ r.Region_Type = "District"
          /\ r.Rural_District_or_City_ID = None
          /\ r.Village_ID = None
          /\ r.County_Name # None

----------------------------------------------------------------------------
(* Units of one year only, and the call for region type District *)

\* the transformation table a unit-table row is aggregated in
TransformationTableOf(r) == IF _filter_cities(r) THEN city_tt ELSE village_tt

\* C24: a village or city unit that only one of the two compared years has is
\* represented in its transformation table: a row of its region whose other
\* side is empty exists, the unit is not simply absent.
C24_UnitsOfOneYearHaveARecord ==
    TableBuilt =>
        /\ \A r \in NewUnits \ Matched(OldUnits, NewUnits) :
              \E i \in 1..Len(TransformationTableOf(r)) :
                 /\ TransformationTableOf(r)[i].New_ID = RegionOf(r)
                 /\ TransformationTableOf(r)[i].Old_ID = None
        /\ \A o \in OldUnits \ Matched(NewUnits, OldUnits) :
              \E i \in 1..Len(TransformationTableOf(o)) :
                 /\ TransformationTableOf(o)[i].Old_ID = RegionOf(o)
                 /\ TransformationTableOf(o)[i].New_ID = None

\* create_many_to_one_mapping(TargetYear, "District")
DistrictInit == InitFor({ "District" })

DistrictSpec == DistrictInit /\ [][Next]_vars

\* the district a unit-table row lies in: its county, prefixed with the
\* province, and its District_ID
DistrictOf(r) == <<r.County_ID, r.District_ID>>

\* C27: for region type District every row of the transformation table
\* aggregates units of one new district and one old district: units of two
\* districts that have the same District_ID in different counties are never in
\* the same row.
C27_DistrictRowsHoldOneDistrict ==
    (TableBuilt /\ region_type = "District") =>
        LET old == OldUnits
            matched == Matched(old, NewUnits)
        IN  \A r, q \in matched :
                PairOf(old, r) = PairOf(old, q) =>
                    /\ DistrictOf(r) = DistrictOf(q)
                    /\ \A o \in Counterparts(old, r), n \in Counterparts(old, q) :
                          DistrictOf(o) = DistrictOf(n)

----------------------------------------------------------------------------
(* The extra-provincial-transformation maps *)

\* C25: every entry of a map built by _get_extra_provincial_transformations
\* relates a new county code to its selected old county code, and the first two
\* characters of the two differ; a county whose selected old code has its
\* province prefix is in no map, and the map of the base era 1365 is empty.
C25_EptEntriesChangeProvince ==
    BuildDone =>
        \A i \in 1..Len(transformations) :
            LET year == transformations[i][1]
                ept == transformations[i][2]
            IN  IF year = BaseStandardYear THEN ept = <<>>
                ELSE /\ \A new \in DOMAIN ept :
                          /\ SubSeq(new, 1, 2) # SubSeq(ept[new], 1, 2)
                          /\ \E j \in 1..Len(documentation[year]) :
                                /\ documentation[year][j].Selected
                                /\ documentation[year][j].New_ID = new
                                /\ documentation[year][j].Old_ID = ept[new]
                     /\ \A j \in 1..Len(documentation[year]) :
                          (/\ documentation[year][j].Selected
                           /\ SubSeq(documentation[year][j].New_ID, 1, 2) =
                                  SubSeq(documentation[year][j].Old_ID, 1, 2))
                          => documentation[year][j].New_ID \notin DOMAIN ept

\* a standard year whose documentation has a county that stayed in its province
\* beside one that moved, and the map of the year has the one that moved
C25_Witness ==
    /\ BuildDone
    /\ \E i \in 1..Len(transformations) :
          /\ transformations[i][1] # BaseStandardYear
          /\ transformations[i][2] # <<>>
          /\ \E j \in 1..Len(documentation[transformations[i][1]]) :
                /\ documentation[transformations[i][1]][j].Selected
                /\ documentation[transformations[i][1]][j].New_ID =
                       documentation[transformations[i][1]][j].Old_ID

----------------------------------------------------------------------------
(* The names a version column holds *)

\* C26: in a version table the column labelled with year Y holds, for every
\* region ID, a name whose normalized form is the normalized name the region has
\* in the snapshot of year Y (no name where the snapshot has no row of the ID),
\* also where the names return to a set used before a change.
C26_ColumnHoldsTheNamesOfItsYear ==
    \A file \in { "provinces_versions", "counties_versions" } :
        Written(file) =>
            \A year \in DOMAIN internal_results[file] :
                \A id \in DOMAIN internal_results[file][year] :
                    NormalizeCell(internal_results[file][year][id]) =
                        NormalizedNames(file, year)[id]

----------------------------------------------------------------------------
(* utils.metadata_utils: find_metadata_version, called by                     *)
(* Dataset.get_metadata_version("raw_files", year)                            *)

RECURSIVE LastVersion(_, _, _)
\* last_version after the loop over versions.keys()
LastVersion(keys, year, last_version) ==
    IF keys = <<>> THEN last_version
    ELSE LastVersion(Tail(keys), year,
             IF Head(keys) <= year /\ last_version <= year
             THEN Head(keys) ELSE last_version)

\* find_metadata_version(versions, year), `keys` the keys of versions in the
\* order they are stored in; the entry returned is named by its key
find_metadata_version(keys, year) ==
    LET last_version == LastVersion(keys, year, 0)
    IN  IF last_version = 0 THEN Raise("AssertionError") ELSE Return(last_version)

GetMetadataVersion ==
    /\ pc = "index"
    /\ \E year \in QueryYears :
        /\ call' = [method |-> "get_metadata_version", year |-> year]
        /\ outcome' = find_metadata_version(years_of(raw_files), year)
    /\ IndexUnchanged

MetadataNext == GetMetadataVersion

MetadataSpec == IndexInit /\ [][MetadataNext]_vars

\* C28: find_metadata_version returns the entry of the greatest version year
\* not exceeding year, in whatever order the keys are stored, and raises
\* AssertionError only when no version year is at most year.
C28_GreatestVersionNotAfterYear ==
    Called("get_metadata_version") =>
        LET eligible == { k \in Range(years_of(raw_files)) : k <= call.year }
        IN  IF eligible = {} THEN outcome = Raise("AssertionError")
            ELSE outcome = Return(Max(eligible))

====
